---- MODULE Spec2Model ----
(***************************************************************************)
(* The event generation engine of the threat-hunting data generator:       *)
(*   src/data-generation/generators/base_generator.py    (BaseSecurity-    *)
(*       Generator: timestamps, caches, threat intel, scenario injection)  *)
(*   src/data-generation/generators/network_generator.py (NetworkLog-      *)
(*       Generator: generate_event, generate_scenario_events,              *)
(*       generate_bulk_events)                                             *)
(*   src/data-generation/config/generation_config.py     (the tables)      *)
(*                                                                         *)
(* Time is an integer number of seconds since a Monday 00:00:00.           *)
(* Floats are integers: probabilities and random.random() in thousandths,  *)
(* threat scores in hundredths.  An IPv4 address is its four octets.       *)
(* A dict is a function on its key set; dict.get(k, default) is GetOr.     *)
(*                                                                         *)
(* The module-level generator of `random` (and Faker's) is the variable    *)
(* rng: the stream of raw draws it is going to produce, one record of raw  *)
(* naturals per engine operation, repeated cyclically.  Every operation    *)
(* reads the head record and advances the stream.  randint, choice,        *)
(* uniform and random are the conversions of a raw draw to their range.    *)
(***************************************************************************)
EXTENDS Integers, Sequences, FiniteSets, TLC

VARIABLES
    config,             \* self.config
    rng,                \* the state of the random generators: the draws to come
    user_cache,         \* self._user_cache
    asset_cache,        \* self._asset_cache
    ip_cache,           \* self._ip_cache
    threat_indicators,  \* self._threat_indicators
    last,               \* the last call: its name, arguments, result and locals
    workers,            \* threads inside a lookup: position and local pool of each
    driver,             \* main(): its position and the data it has emitted
    frame               \* a generate_bulk_events call in progress: its position

vars == <<config, rng, user_cache, asset_cache, ip_cache, threat_indicators,
          last, workers, driver, frame>>

\* None in an integer-valued optional field (source_port = None).
None == -1

\* None in a string-valued optional field (user_agent = None, scenario = None).
NoneStr == "None"

(***************************************************************************)
(* Bounds of the model.                                                    *)
(***************************************************************************)
\* Length of the cyclic stream of draws explored by bulk generation.
TapeLen == 2

\* Raw draws of an index (random.choice, per-pool sizes) range over 0..MaxChoice.
MaxChoice == 1

\* Time windows explored by the timestamp operations last up to this many days.
MaxWindowDays == 3

\* Users generated per department: the source draws randint(20, 50); the model
\* draws randint(MinUsers, MaxUsers).
MinUsers == 1

MaxUsers == 2

(***************************************************************************)
(* Sequences and dicts.                                                    *)
(***************************************************************************)
Range(s) == {s[i] : i \in DOMAIN s}

GetOr(dict, key, default) == IF key \in DOMAIN dict THEN dict[key] ELSE default

Min(a, b) == IF a <= b THEN a ELSE b

(***************************************************************************)
(* datetime.                                                               *)
(***************************************************************************)
Day == 24 * 3600

\* A day count that counts a started day as a day.
DaysRoundedUp(delta) == (delta + Day - 1) \div Day

\* timedelta.days of (later - earlier) for later >= earlier.
Days(delta) == delta \div Day

\* datetime.weekday(): Monday = 0 ... Sunday = 6.
Weekday(t) == (t \div Day) % 7

\* The first weekday() of the weekend.
Saturday == 5

Hour(t) == (t % Day) \div 3600

Minute(t) == (t % 3600) \div 60

Second(t) == t % 60

DateOf(t) == t \div Day

\* datetime.replace(hour=h, minute=m, second=s): the date is kept.
Replace(t, h, m, s) == DateOf(t) * Day + h * 3600 + m * 60 + s

At(day, h, m, s) == day * Day + h * 3600 + m * 60 + s

(***************************************************************************)
(* random: conversions of a raw draw r (a natural).                        *)
(***************************************************************************)
\* random.randint(a, b): a..b inclusive.
RandInt(r, a, b) == a + (r % (b - a + 1))

\* random.random() in thousandths: a value of 0..999, i.e. [0.0, 1.0).
Random(r) == r % 1000

\* random.uniform(a, b) in hundredths: a..b.
Uniform(r, a, b) == a + (r % (b - a + 1))

\* random.choice(seq) of a non-empty sequence.
Choice(r, seq) == seq[(r % Len(seq)) + 1]

\* The stream after one operation has drawn from it.
Advance(stream) == IF stream = <<>> THEN stream ELSE Tail(stream) \o <<Head(stream)>>

\* The draws of the next operation.
Draw == Head(rng)

(***************************************************************************)
(* config/generation_config.py: the settings object main() hands to the    *)
(* engine.  Tables no engine operation reads are left out, and so are the  *)
(* entries of a table that no operation reads (city, employees, ...).      *)
(***************************************************************************)
DEPARTMENTS ==
    <<"Engineering", "Sales", "Marketing", "Finance", "HR", "Legal",
      "Operations", "Security", "IT", "Executive", "Support", "Research">>

SECURITY_CLEARANCES == <<"none", "confidential", "secret", "top_secret">>

\* An ordered dict: the sequence of its keys and the dict itself.  ip_range
\* a.b.c.d/len is <<a, b, c, d, len>>.
OFFICE_LOCATIONS ==
    [keys |-> <<"headquarters", "east_coast", "europe", "apac">>,
     dict |-> [headquarters |-> [timezone |-> "America/Los_Angeles",
                                 ip_range |-> <<10, 1, 0, 0, 16>>],
               east_coast   |-> [timezone |-> "America/New_York",
                                 ip_range |-> <<10, 2, 0, 0, 16>>],
               europe       |-> [timezone |-> "Europe/London",
                                 ip_range |-> <<10, 3, 0, 0, 16>>],
               apac         |-> [timezone |-> "Asia/Singapore",
                                 ip_range |-> <<10, 4, 0, 0, 16>>]]]

THREAT_LOCATIONS ==
    <<[country |-> "Russia", threat_level |-> "high"],
      [country |-> "China", threat_level |-> "high"],
      [country |-> "North Korea", threat_level |-> "critical"],
      [country |-> "Various", threat_level |-> "medium"],
      [country |-> "Iran", threat_level |-> "high"]>>

THREAT_SCENARIOS ==
    [phantom_exfiltrator |->
        [duration_days |-> 45,
         target_users |-> <<"jsmith", "alee", "mchen">>,
         timeline |-> <<[day |-> 1, phase |-> "reconnaissance"],
                        [day |-> 7, phase |-> "initial_access"],
                        [day |-> 14, phase |-> "persistence"],
                        [day |-> 21, phase |-> "lateral_movement"],
                        [day |-> 35, phase |-> "data_discovery"],
                        [day |-> 42, phase |-> "exfiltration"]>>],
     insider_threat |->
        [duration_days |-> 30,
         target_users |-> <<"bwilson">>],
     supply_chain_attack |->
        [duration_days |-> 60]]

\* The configuration main() builds (generate_security_data.py).
ShippedConfig ==
    [DEPARTMENTS |-> DEPARTMENTS,
     SECURITY_CLEARANCES |-> SECURITY_CLEARANCES,
     OFFICE_LOCATIONS |-> OFFICE_LOCATIONS,
     THREAT_LOCATIONS |-> THREAT_LOCATIONS,
     THREAT_SCENARIOS |-> THREAT_SCENARIOS]

\* A configuration a caller may equally construct the engine with: the
\* insider_threat scenario carries a timeline, so that it has an active phase.
TimelineConfig ==
    [ShippedConfig EXCEPT !.THREAT_SCENARIOS =
        [THREAT_SCENARIOS EXCEPT !.insider_threat =
            [duration_days |-> 30,
             target_users |-> <<"bwilson">>,
             timeline |-> <<[day |-> 1, phase |-> "collection"]>>]]]

Configs == {ShippedConfig, TimelineConfig}

(***************************************************************************)
(* The raw draws of one operation, by the place that draws them.           *)
(***************************************************************************)
DefaultDraw ==
    [\* generate_timestamp
     secs |-> 0, u_bias |-> 0, hour |-> 0, minute |-> 0, second |-> 0,
     \* generate_scenario_events
     u_target |-> 0, target |-> 0,
     \* generate_event
     u_threat |-> 0, user |-> 0, protocol |-> 0, source_port |-> 0,
     dest_port |-> 0, source_ip |-> 0, u_internal |-> 0, destination_ip |-> 0,
     ipv4 |-> 0, threat_ip |-> 0, threat_score |-> 0, bytes_sent |-> 0,
     domain |-> 0, user_agent |-> 0, response_code |-> 0, geo |-> 0,
     raw_log |-> 0,
     \* inject_threat_scenario
     inj_bytes |-> 0, inj_ip |-> 0, inj_score |-> 0, inj_hour |-> 0,
     inj_minute |-> 0,
     \* generate_user_id, generate_hostname
     user_count |-> 0, name |-> 0, location |-> 0]

\* The two outcomes of random.random() < p for 0 < p < 1 (and of < 1.0: one).
UDraws == {0, 999}

(***************************************************************************)
(* BaseSecurityGenerator.generate_timestamp                                *)
(***************************************************************************)
\* A roll-forward that leaves a weekend timestamp where it is.
SkipWeekendNever(timestamp) == timestamp

\* A weekend moved back to the Friday before it.
SkipWeekendBack(timestamp) ==
    IF Weekday(timestamp) >= Saturday
    THEN timestamp - (Weekday(timestamp) - 4) * Day
    ELSE timestamp

RECURSIVE SkipWeekend(_)
\* while timestamp.weekday() >= 5: timestamp += timedelta(days=1)
SkipWeekend(timestamp) ==
    IF Weekday(timestamp) >= Saturday THEN SkipWeekend(timestamp + Day) ELSE timestamp

\* timestamp.replace(hour=randint(9, 17), minute=randint(0, 59), second=randint(0, 59))
BusinessHours(d, timestamp) ==
    Replace(timestamp, RandInt(d.hour, 9, 17), RandInt(d.minute, 0, 59),
            RandInt(d.second, 0, 59))

\* Random base time: start_date + randint(0, total_seconds) seconds.
BaseTime(d, start_date, end_date) ==
    start_date + RandInt(d.secs, 0, end_date - start_date)

\* random.random() < business_hours_bias (bias in thousandths).
BiasTaken(d, business_hours_bias) == Random(d.u_bias) < business_hours_bias

generate_timestamp(d, start_date, end_date, business_hours_bias) ==
    LET timestamp == BaseTime(d, start_date, end_date)
    IN  IF BiasTaken(d, business_hours_bias)
        THEN SkipWeekend(BusinessHours(d, timestamp))
        ELSE timestamp

(***************************************************************************)
(* BaseSecurityGenerator: threat intelligence                              *)
(***************************************************************************)
EmptyDict == <<>>

malicious_ips ==
    << <<45, 133, 203, 192>>, <<185, 220, 101, 32>>, <<198, 98, 51, 189>>,
       <<103, 253, 27, 108>>, <<94, 102, 61, 38>>, <<178, 128, 83, 165>> >>

malicious_domains ==
    <<"evil-cdn.net", "malware-host.com", "phishing-site.org",
      "c2-server.info", "bad-actor.biz", "threat-domain.xyz">>

\* for _ in range(50): one hash indicator each.
HashCount == 50

\* A loader that leaves the hash indicators out.
_load_without_hashes ==
    [i \in 1..Len(malicious_ips) |-> [indicator |-> malicious_ips[i], type |-> "ip"]]
    \o [i \in 1..Len(malicious_domains) |->
            [indicator |-> malicious_domains[i], type |-> "domain"]]

\* The indicator list: IPs, then domains, then hashes (fake.sha256() number i
\* is <<"sha256", i>>).  threat_type, confidence and source are not modelled.
_load_threat_indicators ==
    [i \in 1..Len(malicious_ips) |-> [indicator |-> malicious_ips[i], type |-> "ip"]]
    \o [i \in 1..Len(malicious_domains) |->
            [indicator |-> malicious_domains[i], type |-> "domain"]]
    \o [i \in 1..HashCount |-> [indicator |-> <<"sha256", i>>, type |-> "hash"]]

(***************************************************************************)
(* BaseSecurityGenerator.generate_external_ip                              *)
(***************************************************************************)
\* A stretch of what fake.ipv4() may return, private and loopback addresses
\* included.
FakerIPv4 ==
    << <<10, 200, 3, 4>>, <<127, 0, 0, 1>>, <<8, 8, 4, 4>>, <<192, 168, 7, 9>>,
       <<172, 20, 1, 1>>, <<151, 101, 1, 69>> >>

\* ipaddress.IPv4Address.is_loopback
IsLoopback(ip) == ip[1] = 127

\* A test that takes every address for a private one.
IsPrivateEverywhere(ip) == TRUE

\* ipaddress.IPv4Address.is_private, on the ranges the model's addresses meet.
IsPrivate(ip) ==
    \/ ip[1] \in {0, 10, 127}
    \/ ip[1] = 172 /\ ip[2] \in 16..31
    \/ ip[1] = 192 /\ ip[2] = 168
    \/ ip[1] = 169 /\ ip[2] = 254
    \/ ip[1] >= 240

\* The loop without its test: the first address Faker returns.
FakerFirst(r) == Choice(r, FakerIPv4)

RECURSIVE FakerLoop(_)
\* while True: ip = fake.ipv4(); if not private and not loopback: return ip
FakerLoop(r) ==
    LET ip == Choice(r, FakerIPv4)
    IN  IF ~IsPrivate(ip) /\ ~IsLoopback(ip) THEN ip ELSE FakerLoop(r + 1)

\* The IP indicators of a threat-indicator list.
ThreatIps(indicators) ==
    LET ips == SelectSeq(indicators, LAMBDA ind : ind.type = "ip")
    IN  [i \in 1..Len(ips) |-> ips[i].indicator]

\* r_choice: the raw draw of random.choice(threat_ips); r_ipv4: the position
\* of Faker's stream.
generate_external_ip(indicators, r_choice, r_ipv4, malicious) ==
    LET threat_ips == ThreatIps(indicators)
    IN  IF malicious /\ threat_ips # <<>>
        THEN Choice(r_choice, threat_ips)
        ELSE FakerLoop(r_ipv4)

(***************************************************************************)
(* BaseSecurityGenerator.generate_internal_ip                              *)
(* The cached list [str(ip) for ip in network.hosts()][:1000] is kept as   *)
(* the pair (network, count): the first count host addresses of network.   *)
(***************************************************************************)
\* [:1000]
IpPoolLimit == 1000

RECURSIVE Pow2(_)
Pow2(n) == IF n = 0 THEN 1 ELSE 2 * Pow2(n - 1)

\* len(list(IPv4Network(ip_range).hosts())) for a prefix length of at most 30.
HostCount(ip_range) == Pow2(32 - ip_range[5]) - 2

\* The i-th host address (i >= 1) of a network.
HostAt(ip_range, i) ==
    LET base == ((ip_range[1] * 256 + ip_range[2]) * 256 + ip_range[3]) * 256
                + ip_range[4] + i
    IN  <<base \div (256 * 256 * 256), (base \div (256 * 256)) % 256,
          (base \div 256) % 256, base % 256>>

\* The whole list of hosts, without the [:1000] slice.
IpPoolWhole(ip_range) == [network |-> ip_range, count |-> HostCount(ip_range)]

IpPool(ip_range) == [network |-> ip_range, count |-> Min(HostCount(ip_range), IpPoolLimit)]

\* random.choice(ips) of a cached pool.
IpChoice(r, ips) == HostAt(ips.network, (r % ips.count) + 1)

\* Whether an address is a member of a cached pool.
InIpPool(ip, ips) == \E i \in 1..ips.count : ip = HostAt(ips.network, i)

DefaultIpRange == <<10, 1, 0, 0, 16>>

generate_internal_ip(cfg, r, ic, location) ==
    IF location \in DOMAIN ic
    THEN [ret |-> IpChoice(r, ic[location]), ip_cache |-> ic]
    ELSE LET offices == GetOr(cfg, "OFFICE_LOCATIONS", [keys |-> <<>>, dict |-> EmptyDict])
             office_config == GetOr(offices.dict, location, EmptyDict)
             ip_range == GetOr(office_config, "ip_range", DefaultIpRange)
             ips == IpPool(ip_range)
         IN  [ret |-> IpChoice(r, ips),
              ip_cache |-> [l \in DOMAIN ic \cup {location} |->
                               IF l = location THEN ips ELSE ic[l]]]

(***************************************************************************)
(* BaseSecurityGenerator.generate_user_id                                  *)
(* A user keeps the fields an engine operation reads or a reference file   *)
(* is keyed by: user_id, department, location.                             *)
(***************************************************************************)
\* f"{first_name[0].lower()}{last_name.lower()}" of some Faker names.
FakerUsernames == <<"jsmith", "mjohnson", "lbrown", "dwilliams", "kjones">>

\* `if department` / `department or 'any'`: None and '' are falsy.
Truthy(str) == str # NoneStr /\ str # ""

\* The users of the j-th department in scope: user_count = randint(20, 50)
\* of them (scaled to MinUsers..MaxUsers).
DeptUsers(cfg, d, j, dept) ==
    LET user_count == RandInt(d.user_count + j, MinUsers, MaxUsers)
        locations == GetOr(cfg, "OFFICE_LOCATIONS", [keys |-> <<>>, dict |-> EmptyDict]).keys
    IN  [k \in 1..user_count |->
            [user_id |-> Choice(d.name + j + k, FakerUsernames),
             department |-> dept,
             location |-> Choice(d.location + j + k, locations)]]

RECURSIVE NewUsers(_, _, _, _)
\* for dept in departments: ... users.append(user), from the j-th on.
NewUsers(cfg, d, departments, j) ==
    IF j > Len(departments) THEN <<>>
    ELSE DeptUsers(cfg, d, j, departments[j]) \o NewUsers(cfg, d, departments, j + 1)

\* One identity pool for every department.
CacheKeyShared(department) == "any"

CacheKey(department) == IF Truthy(department) THEN department ELSE "any"

\* A configuration without one of its tables.
Without(cfg, table) == [k \in DOMAIN cfg \ {table} |-> cfg[k]]

\* dict[key] = value
Store(dict, key, value) ==
    [k \in DOMAIN dict \cup {key} |-> IF k = key THEN value ELSE dict[k]]

\* A lookup that generates and stores a pool whether or not the key is cached.
generate_user_id_uncached(cfg, d, uc, department) ==
    [ret |-> Choice(d.user, NewUsers(cfg, d, <<"Engineering">>, 1)),
     user_cache |-> Store(uc, CacheKey(department),
                          NewUsers(cfg, d, <<"Engineering">>, 1))]

\* The exception building a user raises, NoneStr if none: random.choices of a
\* population with four weights raises ValueError unless the population has
\* four elements.
UserRaises(cfg) ==
    IF Len(GetOr(cfg, "SECURITY_CLEARANCES", <<"none">>)) # 4 THEN "ValueError"
    ELSE IF Len(GetOr(cfg, "OFFICE_LOCATIONS",
                      [keys |-> <<>>, dict |-> EmptyDict]).keys) # 4
    THEN "ValueError"
    ELSE NoneStr

\* self._user_cache[cache_key] = users; return random.choice(users).
\* random.choice of an empty list raises IndexError.  A result with a field
\* `raised` is an exception leaving the call, the caches as the call left
\* them.
StoreAndChoose(d, uc, cache_key, users) ==
    IF users = <<>>
    THEN [ret |-> EmptyDict, user_cache |-> Store(uc, cache_key, users),
          raised |-> "IndexError"]
    ELSE [ret |-> Choice(d.user, users), user_cache |-> Store(uc, cache_key, users)]

generate_user_id(cfg, d, uc, department) ==
    LET cache_key == CacheKey(department)
    IN  IF cache_key \in DOMAIN uc
        THEN IF uc[cache_key] = <<>>
             THEN [ret |-> EmptyDict, user_cache |-> uc, raised |-> "IndexError"]
             ELSE [ret |-> Choice(d.user, uc[cache_key]), user_cache |-> uc]
        ELSE LET departments == IF Truthy(department) THEN <<department>>
                                ELSE GetOr(cfg, "DEPARTMENTS", <<>>)
             IN  IF departments # <<>> /\ UserRaises(cfg) # NoneStr
                 THEN [ret |-> EmptyDict, user_cache |-> uc,
                       raised |-> UserRaises(cfg)]
                 ELSE StoreAndChoose(d, uc, cache_key,
                                     NewUsers(cfg, d, departments, 1))

(***************************************************************************)
(* BaseSecurityGenerator.generate_hostname                                 *)
(* The cached asset list is kept as (asset_type, count, owners, seed): its *)
(* i-th asset is AssetAt(pool, i).                                         *)
(***************************************************************************)
\* A table that gives every type the default count.
asset_count_default(asset_type) == 100

\* asset_count = {...}.get(asset_type, 100)
asset_count(asset_type) ==
    CASE asset_type = "workstation" -> 800
      [] asset_type = "server" -> 100
      [] asset_type = "mobile" -> 300
      [] asset_type = "iot" -> 50
      [] OTHER -> 100

\* The i-th asset of a pool: its owner is the user the i-th generate_user_id()
\* call of the population loop returned.
AssetAt(pool, i) ==
    [asset_id |-> <<pool.asset_type, i>>,
     hostname |-> <<pool.asset_type, i>>,
     asset_type |-> pool.asset_type,
     owner |-> Choice(pool.seed + i, pool.owners).user_id]

\* self._asset_cache[cache_key] = []
EmptyAssets(asset_type) ==
    [asset_type |-> asset_type, count |-> 0, owners |-> <<>>, seed |-> 0]

\* The assets built with owner, the result of the first generate_user_id()
\* of the loop; an exception it raises leaves the loop with the empty list
\* under the key.
HostnameOfOwner(d, ac, asset_type, owner) ==
    IF "raised" \in DOMAIN owner
    THEN [ret |-> EmptyDict, user_cache |-> owner.user_cache,
          asset_cache |-> Store(ac, asset_type, EmptyAssets(asset_type)),
          raised |-> owner.raised]
    ELSE LET assets == [asset_type |-> asset_type,
                        count |-> asset_count(asset_type),
                        owners |-> owner.user_cache["any"],
                        seed |-> d.user]
         IN  [ret |-> AssetAt(assets, (d.user % assets.count) + 1),
              user_cache |-> owner.user_cache,
              asset_cache |-> Store(ac, asset_type, assets)]

\* 'location': random.choice(list(OFFICE_LOCATIONS.keys())) is evaluated
\* before 'owner' and raises IndexError of an empty table.
generate_hostname(cfg, d, uc, ac, asset_type) ==
    IF asset_type \in DOMAIN ac /\ ac[asset_type].count > 0
    THEN [ret |-> AssetAt(ac[asset_type], (d.user % ac[asset_type].count) + 1),
          user_cache |-> uc, asset_cache |-> ac]
    ELSE IF GetOr(cfg, "OFFICE_LOCATIONS", [keys |-> <<>>, dict |-> EmptyDict]).keys = <<>>
    THEN [ret |-> EmptyDict, user_cache |-> uc,
          asset_cache |-> Store(ac, asset_type, EmptyAssets(asset_type)),
          raised |-> "IndexError"]
    ELSE HostnameOfOwner(d, ac, asset_type, generate_user_id(cfg, d, uc, NoneStr))

(***************************************************************************)
(* BaseSecurityGenerator.generate_geolocation, generate_user_agent         *)
(***************************************************************************)
\* random.choice of an empty table raises IndexError: the value is then the
\* record [raised |-> "IndexError"].
generate_geolocation(cfg, r, location_type) ==
    IF location_type = "office"
    THEN LET offices == GetOr(cfg, "OFFICE_LOCATIONS", [keys |-> <<>>, dict |-> EmptyDict])
         IN  IF offices.keys = <<>> THEN [raised |-> "IndexError"]
             ELSE [country |-> "office",
                   timezone |-> offices.dict[Choice(r, offices.keys)].timezone]
    ELSE IF location_type = "threat"
    THEN LET locations == GetOr(cfg, "THREAT_LOCATIONS", <<>>)
         IN  IF locations = <<>> THEN [raised |-> "IndexError"]
             ELSE [country |-> Choice(r, locations).country,
                   threat_level |-> Choice(r, locations).threat_level]
    ELSE [country |-> "fake.country()"]

generate_user_agent(r, device_type) ==
    IF device_type = "desktop"
    THEN Choice(r, <<"Chrome/91 (Windows)", "Chrome/91 (Macintosh)",
                     "Firefox/89.0", "Safari/14.1.1">>)
    ELSE IF device_type = "mobile"
    THEN Choice(r, <<"Safari/604.1 (iPhone)", "Firefox/88.0 (Android)",
                     "Chrome/91 (Android)">>)
    ELSE Choice(r, <<"curl/7.68.0", "python-requests/2.25.1",
                     "Wget/1.20.3 (linux-gnu)", "sqlmap/1.5.7#stable">>)

(***************************************************************************)
(* BaseSecurityGenerator.inject_threat_scenario                            *)
(***************************************************************************)
Max(S) == CHOOSE x \in S : \A y \in S : y <= x

\* for phase_info in timeline: if days_elapsed >= phase_info['day']:
\*     current_phase = phase_info
\* The last entry, in list order, that qualifies; EmptyDict for None.
CurrentPhaseFirst(timeline, days_elapsed) ==
    LET hits == {i \in DOMAIN timeline : days_elapsed >= timeline[i].day}
    IN  IF hits = {} THEN EmptyDict
        ELSE timeline[CHOOSE i \in hits : \A j \in hits : i <= j]

CurrentPhase(timeline, days_elapsed) ==
    LET hits == {i \in DOMAIN timeline : days_elapsed >= timeline[i].day}
    IN  IF hits = {} THEN EmptyDict ELSE timeline[Max(hits)]

\* Days elapsed on the calendar: since the Monday time is counted from.
DaysElapsedOnCalendar(scenario_config, current_time) == Days(current_time)

\* (current_time - scenario_start).days with
\* scenario_start = current_time - timedelta(days=duration_days)
DaysElapsed(scenario_config, current_time) ==
    LET scenario_start == current_time - GetOr(scenario_config, "duration_days", 30) * Day
    IN  Days(current_time - scenario_start)

\* An exfiltration branch that also rewrites the user of the event.
ExfiltrateAndRetarget(indicators, d, event) ==
    [event EXCEPT
        !.destination_ip = generate_external_ip(indicators, d.inj_ip, d.ipv4, TRUE),
        !.threat_score = Uniform(d.inj_score, 70, 90),
        !.user_id = "mchen"]

\* The phantom_exfiltrator branch in its exfiltration phase.
Exfiltrate(indicators, d, event) ==
    LET sized == IF "bytes_transferred" \in DOMAIN event
                 THEN [event EXCEPT !.bytes_transferred =
                          RandInt(d.inj_bytes, 50000000, 500000000)]
                 ELSE event
    IN  [sized EXCEPT
            !.destination_ip = generate_external_ip(indicators, d.inj_ip, d.ipv4, TRUE),
            !.threat_score = Uniform(d.inj_score, 70, 90)]

sensitive_files ==
    <<"/home/shared/financial_data.xlsx", "/home/shared/customer_database.sql",
      "/home/shared/employee_records.csv">>

\* The insider_threat branch: event_time.replace(hour=randint(20, 23),
\* minute=randint(0, 59)), and a sensitive file_path if the event has one.
AfterHours(d, event) ==
    LET timed == IF "event_time" \in DOMAIN event
                 THEN [event EXCEPT !.event_time =
                          Replace(@, RandInt(d.inj_hour, 20, 23),
                                  RandInt(d.inj_minute, 0, 59), Second(@))]
                 ELSE event
    IN  IF "file_path" \in DOMAIN timed
        THEN [timed EXCEPT !.file_path = Choice(d.inj_ip, sensitive_files)]
        ELSE timed

\* An injection that does not look the scenario up.
inject_unconditionally(cfg, indicators, d, event, scenario, current_time) ==
    AfterHours(d, event)

inject_threat_scenario(cfg, indicators, d, event, scenario, current_time) ==
    LET scenario_config == GetOr(GetOr(cfg, "THREAT_SCENARIOS", EmptyDict), scenario, EmptyDict)
    IN  IF DOMAIN scenario_config = {} THEN event
        ELSE LET current_phase == CurrentPhase(GetOr(scenario_config, "timeline", <<>>),
                                               DaysElapsed(scenario_config, current_time))
             IN  IF DOMAIN current_phase = {} THEN event
                 ELSE IF scenario = "phantom_exfiltrator"
                 THEN IF current_phase.phase = "exfiltration"
                      THEN Exfiltrate(indicators, d, event)
                      ELSE event
                 ELSE IF scenario = "insider_threat"
                 THEN AfterHours(d, event)
                 ELSE event

(***************************************************************************)
(* NetworkLogGenerator.generate_event                                      *)
(* An event keeps every field of the source's dict but those that are one  *)
(* independent draw nothing reads again: log_id, session_id,               *)
(* bytes_received, duration_ms, connection_state and the two hostnames.    *)
(***************************************************************************)
common_ports ==
    [tcp |-> <<80, 443, 22, 23, 21, 25, 53, 110, 143, 993, 995, 465, 587, 3389,
               5432, 3306>>,
     udp |-> <<53, 67, 68, 69, 123, 161, 162, 514, 1812, 1813>>]

port_mapping ==
    << <<80, "HTTP">>, <<443, "HTTPS">>, <<22, "SSH">>, <<21, "FTP">>,
       <<25, "SMTP">>, <<53, "DNS">>, <<110, "POP3">>, <<143, "IMAP">>,
       <<993, "IMAPS">>, <<995, "POP3S">>, <<3389, "RDP">>,
       <<5432, "PostgreSQL">>, <<3306, "MySQL">>, <<1433, "SQL Server">>,
       <<139, "NetBIOS">>, <<445, "SMB">>, <<389, "LDAP">>, <<636, "LDAPS">>,
       <<161, "SNMP">>, <<162, "SNMP-TRAP">> >>

_determine_app_protocol(port) ==
    IF \E i \in DOMAIN port_mapping : port_mapping[i][1] = port
    THEN port_mapping[CHOOSE i \in DOMAIN port_mapping : port_mapping[i][1] = port][2]
    ELSE "Unknown"

\* A web-port test that knows port 80 only.
IsPort80(dest_port) == dest_port = 80

\* dest_port in [80, 443]
IsWebPort(dest_port) == dest_port \in {80, 443}

\* A raw log that takes only port 80 for web traffic.
_generate_raw_log_http(r, protocol, source_ip, dest_ip, dest_port) ==
    IF protocol = "TCP" /\ dest_port = 80
    THEN [method |-> "GET", path |-> "/login", status |-> 200,
          user_agent |-> generate_user_agent(r, "desktop"), size |-> 500]
    ELSE [src |-> source_ip, dst |-> dest_ip, proto |-> protocol, dport |-> dest_port,
          flags |-> "SYN", len |-> 64]

_generate_raw_log(r, protocol, source_ip, dest_ip, dest_port) ==
    IF protocol = "TCP" /\ IsWebPort(dest_port)
    THEN [method |-> Choice(r, <<"GET", "POST", "PUT", "DELETE", "HEAD", "OPTIONS">>),
          path |-> Choice(r, <<"/api/users", "/login", "/dashboard", "/admin",
                               "/config", "/data">>),
          status |-> Choice(r, <<200, 404, 403, 500>>),
          user_agent |-> generate_user_agent(r, "desktop"),
          size |-> RandInt(r, 500, 50000)]
    ELSE [src |-> source_ip, dst |-> dest_ip, proto |-> protocol, dport |-> dest_port,
          flags |-> Choice(r, <<"SYN", "ACK", "FIN", "RST", "PSH">>),
          len |-> RandInt(r, 64, 1500)]

\* is_threat = random.random() < threat_probability
IsThreat(d, threat_probability) == Random(d.u_threat) < threat_probability

\* user_agent = None; if dest_port in [80, 443]: user_agent = ...
UserAgentOf(d, dest_port, is_threat) ==
    IF IsWebPort(dest_port)
    THEN generate_user_agent(d.user_agent, IF is_threat THEN "suspicious" ELSE "desktop")
    ELSE NoneStr

\* response_code = None; if dest_port in [80, 443]: response_code = ...
ResponseCodeOf(d, dest_port, is_threat) ==
    IF IsWebPort(dest_port)
    THEN IF is_threat
         THEN Choice(d.response_code, <<200, 404, 403>>)
         ELSE Choice(d.response_code, <<200, 301, 302, 404, 403, 500>>)
    ELSE None

\* A score on a scale of 0..1000.
ThreatScoreOfWide(d, is_threat) ==
    IF is_threat THEN 10 * Uniform(d.threat_score, 60, 90)
    ELSE 10 * Uniform(d.threat_score, 0, 30)

\* threat_score = random.uniform(0.6, 0.9) / random.uniform(0.0, 0.3)
ThreatScoreOf(d, is_threat) ==
    IF is_threat THEN Uniform(d.threat_score, 60, 90) ELSE Uniform(d.threat_score, 0, 30)

\* Traffic volume: bytes_sent.
BytesSentOf(d, is_threat, scenario) ==
    IF is_threat /\ scenario = "phantom_exfiltrator"
    THEN RandInt(d.bytes_sent, 10000000, 100000000)
    ELSE RandInt(d.bytes_sent, 100, 50000)

\* destination_ip.startswith('10.')
StartsWith10(ip) == ip[1] = 10

\* protocol = random.choice(['TCP', 'UDP', 'ICMP'])
ProtocolOf(d) == Choice(d.protocol, <<"TCP", "UDP", "ICMP">>)

\* A source port drawn for every protocol.
SourcePortOfAlways(d, protocol) == RandInt(d.source_port, 1024, 65535)

\* source_port
SourcePortOf(d, protocol) ==
    IF protocol \in {"TCP", "UDP"} THEN RandInt(d.source_port, 1024, 65535) ELSE None

\* dest_port
DestPortOf(d, protocol) ==
    IF protocol = "TCP" THEN Choice(d.dest_port, common_ports.tcp)
    ELSE IF protocol = "UDP" THEN Choice(d.dest_port, common_ports.udp)
    ELSE None

\* A destination that is never taken from the threat pool.
DestinationIpOfBenign(cfg, indicators, d, ic, is_threat, location) ==
    IF ~is_threat /\ Random(d.u_internal) < 300
    THEN generate_internal_ip(cfg, d.destination_ip, ic, location)
    ELSE [ret |-> generate_external_ip(indicators, d.threat_ip, d.ipv4, FALSE),
          ip_cache |-> ic]

\* destination_ip, with the cache after it: a known malicious address for a
\* threat, else 30% internal and 70% external.
DestinationIpOf(cfg, indicators, d, ic, is_threat, location) ==
    IF is_threat
    THEN [ret |-> generate_external_ip(indicators, d.threat_ip, d.ipv4, TRUE),
          ip_cache |-> ic]
    ELSE IF Random(d.u_internal) < 300
    THEN generate_internal_ip(cfg, d.destination_ip, ic, location)
    ELSE [ret |-> generate_external_ip(indicators, d.threat_ip, d.ipv4, FALSE),
          ip_cache |-> ic]

\* destination_domain
DestinationDomainOf(d, destination_ip, is_threat) ==
    IF StartsWith10(destination_ip) THEN "company.local"
    ELSE IF is_threat
    THEN Choice(d.domain, <<"evil-cdn.net", "malware-host.com", "c2-server.info">>)
    ELSE Choice(d.domain, <<"github.com", "stackoverflow.com", "aws.amazon.com",
                            "google.com", "microsoft.com", "slack.com">>)

\* geolocation of the destination
GeolocationOf(cfg, d, destination_ip, is_threat) ==
    IF StartsWith10(destination_ip) THEN generate_geolocation(cfg, d.geo, "office")
    ELSE IF is_threat THEN generate_geolocation(cfg, d.geo, "threat")
    ELSE generate_geolocation(cfg, d.geo, "random")

\* event = {...}
EventDict(cfg, d, timestamp, scenario, is_threat, user, protocol, dest_port, source_ip, destination_ip) ==
    [event_time |-> timestamp,
     source_ip |-> source_ip,
     destination_ip |-> destination_ip,
     source_port |-> SourcePortOf(d, protocol),
     destination_port |-> dest_port,
     protocol |-> protocol,
     bytes_sent |-> BytesSentOf(d, is_threat, scenario),
     user_id |-> user.user_id,
     destination_domain |-> DestinationDomainOf(d, destination_ip, is_threat),
     application_protocol |-> _determine_app_protocol(dest_port),
     user_agent |-> UserAgentOf(d, dest_port, is_threat),
     response_code |-> ResponseCodeOf(d, dest_port, is_threat),
     threat_score |-> ThreatScoreOf(d, is_threat),
     geolocation |-> GeolocationOf(cfg, d, destination_ip, is_threat),
     raw_log |-> _generate_raw_log(d.raw_log, protocol, source_ip, destination_ip,
                                   dest_port)]

\* if scenario: event = self.inject_threat_scenario(event, scenario, timestamp)
\* return event.  locals.event: the event before the injection.
\* An exception of generate_geolocation leaves generate_event while the
\* event dict is built.
InjectAndReturn(cfg, indicators, d, timestamp, scenario, is_threat, u, dst, event) ==
    IF "raised" \in DOMAIN event.geolocation
    THEN [ret |-> EmptyDict, user_cache |-> u.user_cache, ip_cache |-> dst.ip_cache,
          raised |-> event.geolocation.raised,
          locals |-> [is_threat |-> is_threat, user |-> u.ret, event |-> EmptyDict]]
    ELSE [ret |-> IF Truthy(scenario)
                  THEN inject_threat_scenario(cfg, indicators, d, event, scenario,
                                              timestamp)
                  ELSE event,
          user_cache |-> u.user_cache,
          ip_cache |-> dst.ip_cache,
          locals |-> [is_threat |-> is_threat, user |-> u.ret, event |-> event]]

\* The event of a protocol, a source address src and a destination address dst
\* (each with the cache after it).
EventOfAddresses(cfg, indicators, d, timestamp, scenario, is_threat, u, protocol, src, dst) ==
    InjectAndReturn(cfg, indicators, d, timestamp, scenario, is_threat, u, dst,
        EventDict(cfg, d, timestamp, scenario, is_threat, u.ret, protocol,
                  DestPortOf(d, protocol), src.ret, dst.ret))

\* The event of a source address src: the destination is chosen next.
EventOfSource(cfg, indicators, d, timestamp, scenario, is_threat, u, src) ==
    EventOfAddresses(cfg, indicators, d, timestamp, scenario, is_threat, u,
        ProtocolOf(d), src,
        DestinationIpOf(cfg, indicators, d, src.ip_cache, is_threat, u.ret.location))

\* The event of a user u (with the cache after generate_user_id):
\* location = user['location'], source_ip = generate_internal_ip(location).
\* An exception of generate_user_id leaves generate_event.
EventOfUser(cfg, indicators, d, ic, timestamp, scenario, is_threat, u) ==
    IF "raised" \in DOMAIN u
    THEN [ret |-> EmptyDict, user_cache |-> u.user_cache, ip_cache |-> ic,
          raised |-> u.raised,
          locals |-> [is_threat |-> is_threat, user |-> EmptyDict,
                      event |-> EmptyDict]]
    ELSE EventOfSource(cfg, indicators, d, timestamp, scenario, is_threat, u,
             generate_internal_ip(cfg, d.source_ip, ic, u.ret.location))

generate_event(cfg, indicators, d, uc, ic, timestamp, scenario, threat_probability) ==
    EventOfUser(cfg, indicators, d, ic, timestamp, scenario,
        IsThreat(d, threat_probability), generate_user_id(cfg, d, uc, NoneStr))

(***************************************************************************)
(* NetworkLogGenerator.generate_scenario_events                            *)
(***************************************************************************)
\* target_users and random.random() < 0.8
TargetTaken(d, target_users) == target_users # <<>> /\ Random(d.u_target) < 800

\* self._user_cache['scenario'] = [user]
ForceUser(d, uc, target_users) ==
    Store(uc, "scenario",
          <<[user_id |-> Choice(d.target, target_users), location |-> "headquarters"]>>)

\* The state a loop of event generation carries from one iteration to the
\* next: the list built so far, the caches, the random stream, and the locals
\* of the iterations made.  The loops are applied to engines whose
\* configuration has every table, with which no event raises.
LoopState(events, uc, ic, stream, locals) ==
    [ret |-> events, user_cache |-> uc, ip_cache |-> ic, rng |-> stream,
     locals |-> locals]

\* scenario_events.append(event), with the locals of the iteration.
ScenarioAppend(acc, forced, timestamp, e) ==
    LoopState(Append(acc.ret, e.ret), e.user_cache, e.ip_cache, Advance(acc.rng),
              Append(acc.locals,
                     [forced |-> forced,
                      user |-> IF forced THEN e.user_cache["scenario"][1].user_id
                               ELSE NoneStr,
                      is_threat |-> e.locals.is_threat,
                      timestamp |-> timestamp]))

\* The event of one iteration at a timestamp: of a forced target user with
\* threat_probability 0.8, or of any user with threat_probability 0.1.
ScenarioEvent(cfg, indicators, scenario, target_users, acc, d, timestamp) ==
    ScenarioAppend(acc, TargetTaken(d, target_users), timestamp,
        IF TargetTaken(d, target_users)
        THEN generate_event(cfg, indicators, d,
                            ForceUser(d, acc.user_cache, target_users),
                            acc.ip_cache, timestamp, scenario, 800)
        ELSE generate_event(cfg, indicators, d, acc.user_cache, acc.ip_cache,
                            timestamp, scenario, 100))

\* One iteration of `for i in range(event_count)`; it draws from the head of
\* the stream.
ScenarioIteration(cfg, indicators, scenario, start_time, end_time, target_users, acc) ==
    ScenarioEvent(cfg, indicators, scenario, target_users, acc, Head(acc.rng),
                  generate_timestamp(Head(acc.rng), start_time, end_time, 300))

RECURSIVE ScenarioLoop(_, _, _, _, _, _, _, _)
\* for i in range(event_count): ..., from the iteration i = len(events) on.
ScenarioLoop(cfg, indicators, scenario, start_time, end_time, target_users, event_count, acc) ==
    IF Len(acc.ret) >= event_count THEN acc
    ELSE ScenarioLoop(cfg, indicators, scenario, start_time, end_time, target_users,
                      event_count,
                      ScenarioIteration(cfg, indicators, scenario, start_time,
                                        end_time, target_users, acc))

generate_scenario_events(cfg, indicators, stream, uc, ic, scenario, start_time, end_time, event_count) ==
    LET scenario_config == GetOr(GetOr(cfg, "THREAT_SCENARIOS", EmptyDict), scenario, EmptyDict)
    IN  IF DOMAIN scenario_config = {}
        THEN LoopState(<<>>, uc, ic, stream, <<>>)
        ELSE ScenarioLoop(cfg, indicators, scenario, start_time, end_time,
                          GetOr(scenario_config, "target_users", <<>>), event_count,
                          LoopState(<<>>, uc, ic, stream, <<>>))

(***************************************************************************)
(* NetworkLogGenerator.generate_bulk_events                                *)
(***************************************************************************)
\* The place of e in a list sorted by event_time: after every element whose
\* event_time is not greater (list.sort is stable).
InsertByTime(sorted, e) ==
    LET n == Cardinality({i \in DOMAIN sorted : sorted[i].event_time <= e.event_time})
    IN  SubSeq(sorted, 1, n) \o <<e>> \o SubSeq(sorted, n + 1, Len(sorted))

\* A sort that leaves the list in the order it was built.
SortByTimeNever(events) == events

RECURSIVE SortByTime(_)
\* all_events.sort(key=lambda x: x['event_time'])
SortByTime(events) ==
    IF events = <<>> THEN <<>>
    ELSE InsertByTime(SortByTime(SubSeq(events, 1, Len(events) - 1)), events[Len(events)])

\* int(total_events * 0.1) for total_events >= 0: the product of an integer
\* n and the double 0.1 (which lies above 1/10 by less than half an ulp of
\* n/10) truncates to n div 10.
ScenarioEventCount(total_events) == total_events \div 10

\* A split that hands every scenario the whole reserve.
EventsForScenarioWhole(scenario_event_count, scenarios) == scenario_event_count

\* scenario_event_count // len(scenarios)
EventsForScenario(scenario_event_count, scenarios) ==
    scenario_event_count \div Len(scenarios)

\* scenario_events.extend(got.ret).  locals.returns: the list each call
\* returned.
ScenariosExtend(acc, got) ==
    LoopState(acc.ret \o got.ret, got.user_cache, got.ip_cache, got.rng,
              [returns |-> Append(acc.locals.returns, got.ret),
               iterations |-> acc.locals.iterations \o got.locals])

\* One iteration of `for scenario in scenarios`.
ScenariosIteration(cfg, indicators, scenarios, j, start_time, end_time, scenario_event_count, acc) ==
    ScenariosExtend(acc,
        generate_scenario_events(cfg, indicators, acc.rng, acc.user_cache,
            acc.ip_cache, scenarios[j], start_time, end_time,
            EventsForScenario(scenario_event_count, scenarios)))

RECURSIVE ScenariosLoop(_, _, _, _, _, _, _)
\* for scenario in scenarios: ..., from the scenario after those that have
\* returned on.
ScenariosLoop(cfg, indicators, scenarios, start_time, end_time, scenario_event_count, acc) ==
    IF Len(acc.locals.returns) >= Len(scenarios) THEN acc
    ELSE ScenariosLoop(cfg, indicators, scenarios, start_time, end_time,
                       scenario_event_count,
                       ScenariosIteration(cfg, indicators, scenarios,
                                          Len(acc.locals.returns) + 1, start_time,
                                          end_time, scenario_event_count, acc))

\* events.append(event)
NormalAppend(acc, e) ==
    LoopState(Append(acc.ret, e.ret), e.user_cache, e.ip_cache, Advance(acc.rng), <<>>)

\* One iteration of `for i in range(normal_event_count)`.
NormalIteration(cfg, indicators, start_time, end_time, acc) ==
    NormalAppend(acc,
        generate_event(cfg, indicators, Head(acc.rng), acc.user_cache, acc.ip_cache,
            generate_timestamp(Head(acc.rng), start_time, end_time, 700), NoneStr, 20))

RECURSIVE NormalLoop(_, _, _, _, _, _)
\* for i in range(normal_event_count): ..., from the iteration i = len(events)
\* on.
NormalLoop(cfg, indicators, start_time, end_time, normal_event_count, acc) ==
    IF Len(acc.ret) >= normal_event_count THEN acc
    ELSE NormalLoop(cfg, indicators, start_time, end_time, normal_event_count,
                    NormalIteration(cfg, indicators, start_time, end_time, acc))

\* Combine and sort by timestamp.
Combine(events, scenario_events) == SortByTime(events \o scenario_events)

\* all_events = events + scenario_events, sorted; return all_events.
BulkReturn(total_events, sc, normal) ==
    [ret |-> Combine(normal.ret, sc.ret),
     user_cache |-> normal.user_cache,
     ip_cache |-> normal.ip_cache,
     rng |-> normal.rng,
     locals |-> [total_events |-> total_events,
                 events |-> normal.ret,
                 scenario_events |-> sc.ret,
                 scenario_returns |-> sc.locals.returns,
                 scenario_locals |-> sc.locals.iterations]]

\* A baseline loop that generates total_events events whatever the number
\* of scenario events.
BulkNormalFull(cfg, indicators, start_time, end_time, total_events, sc) ==
    BulkReturn(total_events, sc,
        NormalLoop(cfg, indicators, start_time, end_time, total_events,
                   LoopState(<<>>, sc.user_cache, sc.ip_cache, sc.rng, <<>>)))

\* normal_event_count = total_events - len(scenario_events), and the loop
\* of normal events.
BulkNormal(cfg, indicators, start_time, end_time, total_events, sc) ==
    BulkReturn(total_events, sc,
        NormalLoop(cfg, indicators, start_time, end_time, total_events - Len(sc.ret),
                   LoopState(<<>>, sc.user_cache, sc.ip_cache, sc.rng, <<>>)))

\* The scenario events of total_events events, then the normal ones.
\* scenarios = None is the empty list: `if scenarios` is false of both.
BulkScenarios(cfg, indicators, stream, uc, ic, start_time, end_time, total_events, scenarios) ==
    BulkNormal(cfg, indicators, start_time, end_time, total_events,
        IF scenarios # <<>>
        THEN ScenariosLoop(cfg, indicators, scenarios, start_time, end_time,
                           ScenarioEventCount(total_events),
                           LoopState(<<>>, uc, ic, stream,
                                     [returns |-> <<>>, iterations |-> <<>>]))
        ELSE LoopState(<<>>, uc, ic, stream, [returns |-> <<>>, iterations |-> <<>>]))

\* total_days = (end_time - start_time).days
\* total_events = events_per_day * total_days
generate_bulk_events(cfg, indicators, stream, uc, ic, start_time, end_time, events_per_day, scenarios) ==
    BulkScenarios(cfg, indicators, stream, uc, ic, start_time, end_time,
                  events_per_day * Days(end_time - start_time), scenarios)

(***************************************************************************)
(* The engine as a state machine: construction, then calls.  A call is one *)
(* action: the whole operation with every cache update it makes.           *)
(***************************************************************************)
\* The threads that may call into one engine, none of them inside a call.
Workers == {1, 2}

Idle == [pc |-> "idle", op |-> NoneStr, pool |-> EmptyDict, stored |-> FALSE]

NoWorkers == [w \in Workers |-> Idle]

\* No generate_bulk_events call in progress.
NoFrame == [pc |-> "idle"]

\* main() before it has generated anything.
NotRun == [pc |-> "start", users |-> <<>>, assets |-> <<>>, events |-> <<>>]

NoCall ==
    [op |-> "none", args |-> EmptyDict, ret |-> EmptyDict, locals |-> EmptyDict,
     raised |-> NoneStr]

\* BaseSecurityGenerator.__init__ / NetworkLogGenerator.__init__ on one of
\* `configs`, with the random generators about to produce one of `streams`.
Construct(configs, streams) ==
    /\ config \in configs
    /\ rng \in streams
    /\ user_cache = EmptyDict
    /\ asset_cache = EmptyDict
    /\ ip_cache = EmptyDict
    /\ threat_indicators = _load_threat_indicators
    /\ last = NoCall
    /\ workers = NoWorkers
    /\ driver = NotRun
    /\ frame = NoFrame

\* The engine state after a call returned r: the caches and the stream r
\* carries (a call that draws without returning its stream has consumed the
\* head), and the record of the call.
Return(op, args, r) ==
    /\ last' = [op |-> op, args |-> args, ret |-> r.ret,
                locals |-> GetOr(r, "locals", <<>>),
                raised |-> GetOr(r, "raised", NoneStr)]
    /\ user_cache' = GetOr(r, "user_cache", user_cache)
    /\ asset_cache' = GetOr(r, "asset_cache", asset_cache)
    /\ ip_cache' = GetOr(r, "ip_cache", ip_cache)
    /\ rng' = GetOr(r, "rng", Advance(rng))
    /\ UNCHANGED <<config, threat_indicators, workers, driver, frame>>

Friday == Saturday - 1

\* The windows [start, end] the calls are made with: zero-length, whole days,
\* a day and a half, starting at midnight or in the evening, on a Monday or
\* a Friday.
Windows ==
    {[start_time |-> At(day, h, 0, 0), end_time |-> At(day, h, 0, 0) + half * (Day \div 2)] :
        day \in {0, Friday}, h \in {0, 20}, half \in 0..(2 * MaxWindowDays)}

Biases == {300, 700, 1000}

GenerateTimestampCall ==
    \E w \in Windows, bias \in Biases :
        Return("generate_timestamp",
               [start_date |-> w.start_time, end_date |-> w.end_time,
                business_hours_bias |-> bias],
               [ret |-> generate_timestamp(Draw, w.start_time, w.end_time, bias),
                locals |-> [timestamp |-> BaseTime(Draw, w.start_time, w.end_time),
                            biased |-> BiasTaken(Draw, bias)]])

\* The draws generate_timestamp reads: positions spread over the longest
\* window (a raw draw beyond a window wraps into it), both outcomes of the
\* bias draw, the ends of the hour, minute and second ranges.
TimestampDraws ==
    {[DefaultDraw EXCEPT !.secs = q * (Day \div 4), !.u_bias = u, !.hour = h,
                         !.minute = m, !.second = m] :
        q \in 0..(4 * MaxWindowDays), u \in UDraws, h \in {0, 8}, m \in {0, 59}}

InitTimestamp == Construct({ShippedConfig}, {<<d>> : d \in TimestampDraws})

NextTimestamp == GenerateTimestampCall

SpecTimestamp == InitTimestamp /\ [][NextTimestamp]_vars

\* The last call was generate_timestamp(start, end, 1.0).
TimestampCallBiasOne ==
    last.op = "generate_timestamp" /\ last.args.business_hours_bias = 1000

\* C26: when the business-hours branch of generate_timestamp was taken, the
\* result is a weekday whose date is the date of the drawn instant or at most
\* 2 days later, never earlier: the drawn date itself for a weekday, the
\* Monday after for a Saturday or a Sunday. When the branch was not taken the
\* result is exactly the drawn instant, weekend or not.
C26_RollForwardOnly ==
    last.op = "generate_timestamp" =>
        IF last.locals.biased
        THEN /\ Weekday(last.ret) \in 0..4
             /\ DateOf(last.ret) - DateOf(last.locals.timestamp) \in 0..2
             /\ DateOf(last.ret) - DateOf(last.locals.timestamp) =
                    IF Weekday(last.locals.timestamp) = Saturday THEN 2
                    ELSE IF Weekday(last.locals.timestamp) = Saturday + 1 THEN 1
                    ELSE 0
        ELSE last.ret = last.locals.timestamp

\* C26 witness: the branch was taken on a Saturday instant and the result is
\* the Monday two days later.
C26_Witness ==
    /\ last.op = "generate_timestamp"
    /\ last.locals.biased
    /\ Weekday(last.locals.timestamp) = Saturday
    /\ Weekday(last.ret) = 0
    /\ DateOf(last.ret) = DateOf(last.locals.timestamp) + 2

\* C26 witness: the branch was not taken and the result is the drawn instant,
\* on a weekend.
C26_WitnessWeekend ==
    /\ last.op = "generate_timestamp"
    /\ ~last.locals.biased
    /\ Weekday(last.ret) >= Saturday
    /\ last.ret = last.locals.timestamp

\* C9: with business_hours_bias = 1.0, every timestamp generate_timestamp
\* returns, for any window, falls on a weekday (Monday to Friday) and has its
\* hour in 9..17.
C9_BiasOneWeekdayBusinessHours ==
    TimestampCallBiasOne =>
        /\ Weekday(last.ret) \in 0..4
        /\ Hour(last.ret) \in 9..17

\* C9 witness: a call with bias 1.0 whose random base time fell on a weekend
\* outside business hours; the override and the roll-forward acted on it.
C9_Witness ==
    /\ TimestampCallBiasOne
    /\ last.locals.biased
    /\ Weekday(last.locals.timestamp) >= 5
    /\ Hour(last.locals.timestamp) \notin 9..17
    /\ last.ret # last.locals.timestamp

(***************************************************************************)
(* Calls of generate_event and generate_scenario_events.                   *)
(***************************************************************************)
\* A scenario name that THREAT_SCENARIOS does not configure.
Unconfigured == "unknown_scenario"

ScenarioNames == {"phantom_exfiltrator", "insider_threat", "supply_chain_attack", Unconfigured}

\* threat_probability as the callers pass it: 0.02 (baseline), 0.8 (scenario).
Probabilities == {20, 800}

EventTimes == {At(Friday, 8, 15, 30), At(Friday + 1, 23, 59, 59)}

GenerateEventCall ==
    \E timestamp \in EventTimes, scenario \in ScenarioNames \cup {NoneStr},
       threat_probability \in Probabilities :
        Return("generate_event",
               [timestamp |-> timestamp, scenario |-> scenario,
                threat_probability |-> threat_probability],
               generate_event(config, threat_indicators, Draw, user_cache, ip_cache,
                              timestamp, scenario, threat_probability))

\* generate_scenario_events is called for up to this many events.
MaxScenarioEvents == 1

\* The window generate_scenario_events is called with: Friday evening to
\* Sunday morning.
ScenarioWindow == [start_time |-> At(Friday, 20, 0, 0), end_time |-> At(Friday + 2, 8, 0, 0)]

GenerateScenarioEventsCall ==
    \E scenario \in ScenarioNames, event_count \in 0..MaxScenarioEvents :
        Return("generate_scenario_events",
               [scenario |-> scenario, start_time |-> ScenarioWindow.start_time,
                end_time |-> ScenarioWindow.end_time, event_count |-> event_count],
               generate_scenario_events(config, threat_indicators, rng, user_cache,
                   ip_cache, scenario, ScenarioWindow.start_time,
                   ScenarioWindow.end_time, event_count))

\* A protocol draw with a destination-port draw: TCP with each of the first
\* ports of its table (80, 443, 22, ...), UDP and ICMP with the first.
PortDraws ==
    {<<0, dp>> : dp \in 0..(MaxChoice + 1)} \cup {<<1, 0>>, <<2, 0>>}

\* The draws generate_event and generate_scenario_events read: the outcomes
\* of the threat draw against each threat_probability, of the
\* internal/external draw and of the target draw, the protocols and ports
\* of PortDraws, and with each of the first members of a pool (user, target
\* user, threat IP, Faker address) a further point of every numeric range,
\* the last of them its upper end.
EventDraws ==
    {[DefaultDraw EXCEPT !.u_threat = ut, !.protocol = pp[1], !.dest_port = pp[2],
                         !.u_internal = ui, !.u_target = ug, !.user = us,
                         !.target = us, !.ipv4 = 2 * us, !.threat_ip = us,
                         !.inj_ip = us + 1,
                         !.threat_score = 30 * us, !.inj_score = 20 * us,
                         !.bytes_sent = 90000000 * us, !.source_port = 64511 * us,
                         !.inj_hour = 3 * us, !.inj_minute = 59 * us,
                         !.secs = us * Day, !.u_bias = ui] :
        ut \in {10, 500, 999}, pp \in PortDraws, ui \in UDraws, ug \in UDraws,
        us \in 0..MaxChoice}

InitEvent == Construct(Configs, {<<d>> : d \in EventDraws})

NextEvent == GenerateEventCall \/ GenerateScenarioEventsCall

SpecEvent == InitEvent /\ [][NextEvent]_vars

\* The events the last call returned.
ReturnedEvents ==
    IF last.op = "generate_event" THEN {last.ret}
    ELSE IF last.op \in {"generate_scenario_events", "generate_bulk_events"}
    THEN Range(last.ret)
    ELSE {}

\* The target_users list of the scenario the last call was made for.
TargetUsersOfCall ==
    GetOr(GetOr(config.THREAT_SCENARIOS, last.args.scenario, EmptyDict),
          "target_users", <<>>)

\* C5 (the claim as the specification states it): whenever
\* generate_scenario_events takes the target-user branch for an event, that
\* event's user_id is a member of the scenario's target_users list.
C5_ForcedEventHasTargetUser ==
    last.op = "generate_scenario_events" =>
        \A i \in DOMAIN last.ret :
            last.locals[i].forced =>
                last.ret[i].user_id \in Range(TargetUsersOfCall)

\* The phase inject_threat_scenario finds the phantom_exfiltrator scenario in
\* at the time of the last call is its exfiltration phase.
ExfiltrationActive ==
    /\ "phantom_exfiltrator" \in DOMAIN config.THREAT_SCENARIOS
    /\ "timeline" \in DOMAIN config.THREAT_SCENARIOS.phantom_exfiltrator
    /\ GetOr(CurrentPhase(config.THREAT_SCENARIOS.phantom_exfiltrator.timeline,
                          DaysElapsed(config.THREAT_SCENARIOS.phantom_exfiltrator,
                                      last.args.timestamp)),
             "phase", NoneStr) = "exfiltration"

\* C6 (the claim as the specification states it): every event generated with
\* is_threat true under scenario phantom_exfiltrator while the exfiltration
\* phase is active has bytes_sent in 50_000_000..500_000_000 and a
\* destination_ip that is one of the IP indicators of the threat pool.
C6_ExfiltrationVolumeAndDestination ==
    (/\ last.op = "generate_event"
     /\ last.args.scenario = "phantom_exfiltrator"
     /\ last.locals.is_threat
     /\ ExfiltrationActive) =>
        /\ last.ret.bytes_sent \in 50000000..500000000
        /\ last.ret.destination_ip \in Range(ThreatIps(threat_indicators))

\* C22 (the claim as the specification states it): every event generated for
\* the insider_threat scenario as the shipped configuration defines it has its
\* event_time hour shifted into 20..23.
C22_InsiderAfterHours ==
    (/\ last.op \in {"generate_event", "generate_scenario_events"}
     /\ last.args.scenario = "insider_threat"
     /\ config = ShippedConfig) =>
        \A e \in ReturnedEvents : Hour(e.event_time) \in 20..23

\* C25: in every event generate_event returns, protocol is ICMP exactly when
\* source_port and destination_port are both null; for TCP and UDP
\* source_port lies in 1024..65535 and destination_port is a member of that
\* protocol's table of well-known ports, so a UDP event never has
\* destination_port 80 or 443.
C25_ProtocolAndPorts ==
    last.op = "generate_event" =>
        /\ last.ret.protocol = "ICMP" <=>
               (last.ret.source_port = None /\ last.ret.destination_port = None)
        /\ last.ret.protocol = "TCP" =>
               /\ last.ret.source_port \in 1024..65535
               /\ last.ret.destination_port \in Range(common_ports.tcp)
        /\ last.ret.protocol = "UDP" =>
               /\ last.ret.source_port \in 1024..65535
               /\ last.ret.destination_port \in Range(common_ports.udp)
               /\ last.ret.destination_port \notin {80, 443}
        /\ \A port \in Range(common_ports.udp) : ~IsWebPort(port)

\* C25 witness: a UDP event with the highest source port and a port of the
\* UDP table.
C25_Witness ==
    /\ last.op = "generate_event"
    /\ last.ret.protocol = "UDP"
    /\ last.ret.source_port = 65535
    /\ last.ret.destination_port = 53

\* C25 witness: an ICMP event without ports.
C25_WitnessIcmp ==
    /\ last.op = "generate_event"
    /\ last.ret.protocol = "ICMP"
    /\ last.ret.source_port = None
    /\ last.ret.destination_port = None

\* C29: in every event generate_event returns, raw_log is the web variant
\* exactly when user_agent and response_code are non-null, and the generic
\* variant exactly when they are null.
C29_RawLogAgreesWithFields ==
    last.op = "generate_event" =>
        /\ "method" \in DOMAIN last.ret.raw_log <=>
               (last.ret.user_agent # NoneStr /\ last.ret.response_code # None)
        /\ "proto" \in DOMAIN last.ret.raw_log <=>
               (last.ret.user_agent = NoneStr /\ last.ret.response_code = None)

\* C29 witness: a TCP event to port 443 with the web raw log and both fields.
C29_Witness ==
    /\ last.op = "generate_event"
    /\ last.ret.protocol = "TCP"
    /\ last.ret.destination_port = 443
    /\ "method" \in DOMAIN last.ret.raw_log
    /\ last.ret.user_agent # NoneStr
    /\ last.ret.response_code # None

\* C29 witness: a UDP event with the generic raw log and neither field.
C29_WitnessGeneric ==
    /\ last.op = "generate_event"
    /\ last.ret.protocol = "UDP"
    /\ "proto" \in DOMAIN last.ret.raw_log
    /\ last.ret.user_agent = NoneStr
    /\ last.ret.response_code = None

\* C28 (the claim as the specification states it): in every event
\* generate_event returns, with or without a scenario, destination_domain is
\* 'company.local' and geolocation is the office kind (it carries a timezone)
\* exactly when the returned destination_ip is an internal 10.x address.
C28_DestinationDescriptorsAgree ==
    last.op = "generate_event" =>
        /\ last.ret.destination_domain = "company.local" <=>
               StartsWith10(last.ret.destination_ip)
        /\ "timezone" \in DOMAIN last.ret.geolocation <=>
               StartsWith10(last.ret.destination_ip)

\* C7: for every event generate_event returns, user_agent and response_code
\* are both non-null if destination_port is 80 or 443, and both null if it is
\* any other value (null included).
C7_PortCoherence ==
    last.op = "generate_event" =>
        IF last.ret.destination_port \in {80, 443}
        THEN last.ret.user_agent # NoneStr /\ last.ret.response_code # None
        ELSE last.ret.user_agent = NoneStr /\ last.ret.response_code = None

\* C7 witness: a TCP event to port 443 that carries a user agent and a
\* response code.
C7_Witness ==
    /\ last.op = "generate_event"
    /\ last.ret.protocol = "TCP"
    /\ last.ret.destination_port = 443
    /\ last.ret.user_agent # NoneStr
    /\ last.ret.response_code \in {200, 301, 302, 404, 403, 500}

(***************************************************************************)
(* Calls of generate_bulk_events.                                          *)
(***************************************************************************)
\* generate_bulk_events is called with up to this many events per day.
MaxEventsPerDay == 2

\* The longest window of a bulk call, in days: the shortest over which
\* MaxEventsPerDay events a day leave a scenario event to each of two
\* scenarios.
BulkDays == 10

\* The windows of the bulk calls: one day from a Monday midnight, a zero-length
\* window, a day and a half from a Friday evening (one whole day, over a
\* weekend), and BulkDays days.
BulkWindows ==
    {[start_time |-> At(0, 0, 0, 0), end_time |-> At(1, 0, 0, 0)],
     [start_time |-> At(Friday, 20, 0, 0), end_time |-> At(Friday, 20, 0, 0)],
     [start_time |-> At(0, 9, 0, 0), end_time |-> At(0, 21, 0, 0)],
     [start_time |-> At(Friday, 20, 0, 0), end_time |-> At(Friday + 2, 8, 0, 0)],
     [start_time |-> At(0, 0, 0, 0), end_time |-> At(BulkDays, 0, 0, 0)]}

\* The scenario lists of the bulk calls: none, one configured scenario, two,
\* and a configured with an unconfigured one.
ScenarioLists ==
    {<<>>, <<"insider_threat">>, <<"phantom_exfiltrator", "insider_threat">>,
     <<"insider_threat", Unconfigured>>}

\* A call generate_bulk_events(start_time, end_time, events_per_day, scenarios).
BulkCall(windows, rates, lists) ==
    \E w \in windows, events_per_day \in rates, scenarios \in lists :
        Return("generate_bulk_events",
               [start_time |-> w.start_time, end_time |-> w.end_time,
                events_per_day |-> events_per_day, scenarios |-> scenarios],
               generate_bulk_events(config, threat_indicators, rng, user_cache,
                   ip_cache, w.start_time, w.end_time, events_per_day, scenarios))

\* generate_network_logs: the bulk call is the first call made on a newly
\* constructed generator.
FirstBulkEventsCall ==
    /\ last = NoCall
    /\ BulkCall(BulkWindows, 0..MaxEventsPerDay, ScenarioLists)

\* The draws of one iteration of a bulk call: a base time at the start of the
\* window, inside it or at its very end, both outcomes of the bias draw, and
\* both outcomes of the target and threat draws (together).
BulkDraws ==
    {[DefaultDraw EXCEPT !.secs = q, !.u_bias = u, !.u_target = g, !.u_threat = g,
                         !.inj_hour = 3, !.inj_score = 20, !.threat_score = 30] :
        q \in {0, BulkDays * Day}, u \in UDraws, g \in UDraws}

\* The streams of TapeLen draws.
Tapes(draws) == [1..TapeLen -> draws]

InitBulk == Construct(Configs, Tapes(BulkDraws))

NextBulk == FirstBulkEventsCall

SpecBulk == InitBulk /\ [][NextBulk]_vars

\* The last call was generate_bulk_events.
BulkCalled == last.op = "generate_bulk_events"

\* events_per_day * (end_time - start_time).days of the last bulk call.
TotalOfCall ==
    last.args.events_per_day * ((last.args.end_time - last.args.start_time) \div Day)

\* C1: the list generate_bulk_events returns is sorted non-decreasing by
\* event_time, events whose event_time the scenario engine rewrote included.
C1_BulkSortedByEventTime ==
    BulkCalled =>
        \A i \in 1..(Len(last.ret) - 1) :
            last.ret[i].event_time <= last.ret[i + 1].event_time

\* C1 witness: a bulk call with a scenario event whose event_time the
\* scenario engine rewrote, and whose events were out of order before the
\* final sort.
C1_Witness ==
    /\ BulkCalled
    /\ \E k \in DOMAIN last.locals.scenario_events :
           last.locals.scenario_events[k].event_time
               # last.locals.scenario_locals[k].timestamp
    /\ \E i, j \in DOMAIN last.locals.events :
           i < j /\ last.locals.events[i].event_time > last.locals.events[j].event_time

\* C2 (the claim as the specification states it): every event
\* generate_bulk_events(start_time, end_time, ...) returns has
\* start_time <= event_time < end_time.
C2_BulkWithinWindow ==
    BulkCalled =>
        \A i \in DOMAIN last.ret :
            /\ last.args.start_time <= last.ret[i].event_time
            /\ last.ret[i].event_time < last.args.end_time

\* C3: generate_bulk_events returns exactly events_per_day *
\* (end_time - start_time).days events, the baseline count being that total
\* minus the number of scenario events produced.
C3_BulkCount ==
    BulkCalled =>
        /\ Len(last.ret) = TotalOfCall
        /\ Len(last.locals.events) = TotalOfCall - Len(last.locals.scenario_events)

\* C3 witness: a bulk call with an unconfigured scenario in its list, so that
\* fewer scenario events were produced than reserved, and baseline events
\* making up the total.
C3_Witness ==
    /\ BulkCalled
    /\ TotalOfCall = 2 * BulkDays
    /\ Unconfigured \in Range(last.args.scenarios)
    /\ Len(last.locals.scenario_events) = 1
    /\ Len(last.locals.events) = TotalOfCall - 1

\* C4: with n scenario names requested, every requested scenario that is
\* configured contributes exactly floor(floor(0.1 * total_events) / n) events,
\* an unconfigured one none, and the baseline is the rest.
C4_ScenarioSplit ==
    (BulkCalled /\ last.args.scenarios # <<>>) =>
        /\ DOMAIN last.locals.scenario_returns = DOMAIN last.args.scenarios
        /\ \A j \in DOMAIN last.args.scenarios :
               Len(last.locals.scenario_returns[j]) =
                   IF last.args.scenarios[j] \in DOMAIN config.THREAT_SCENARIOS
                   THEN (TotalOfCall \div 10) \div Len(last.args.scenarios)
                   ELSE 0
        /\ Len(last.locals.events) + Len(last.locals.scenario_events) = TotalOfCall

\* C4 witness: two configured scenarios share a reserve of two events, one
\* event each, with eighteen baseline events.
C4_Witness ==
    /\ BulkCalled
    /\ last.args.scenarios = <<"phantom_exfiltrator", "insider_threat">>
    /\ TotalOfCall \div 10 = 2
    /\ Len(last.locals.scenario_returns[1]) = 1
    /\ Len(last.locals.scenario_returns[2]) = 1
    /\ Len(last.locals.events) = TotalOfCall - 2

\* The arguments of a call leave the bulk generator nothing to generate.
NothingToGenerate(args) ==
    \/ args.events_per_day = 0
    \/ args.end_time - args.start_time < Day

\* C14: generate_bulk_events over a window shorter than one whole day (the
\* zero-length window included) or with events_per_day = 0 returns the empty
\* list without raising, with or without scenarios, and draws nothing on the
\* way: no timestamp is generated, no event built, no pool touched.
C14_EmptyBulk ==
    [][(last'.op = "generate_bulk_events" /\ NothingToGenerate(last'.args)) =>
           /\ last'.ret = <<>>
           /\ last'.raised = NoneStr
           /\ rng' = rng
           /\ UNCHANGED <<user_cache, asset_cache, ip_cache>>]_vars

\* C14 witness: a twelve-hour window with a positive rate and two scenarios
\* came back empty.
C14_Witness ==
    /\ BulkCalled
    /\ last.args.end_time - last.args.start_time = 12 * 3600
    /\ last.args.events_per_day = MaxEventsPerDay
    /\ Len(last.args.scenarios) = 2
    /\ last.ret = <<>>

(***************************************************************************)
(* The engine under any sequence of its operations.                        *)
(***************************************************************************)
\* A call's result with the locals of the call.
WithLocals(r, locals) ==
    [x \in DOMAIN r \cup {"locals"} |-> IF x = "locals" THEN locals ELSE r[x]]

\* generate_user_id(department): with no department, with a configured one,
\* and with one that is named as the reserved pool key is.
UserIdLookup ==
    \E department \in {NoneStr, "Sales", "scenario"} :
        Return("generate_user_id", [department |-> department],
               WithLocals(generate_user_id(config, Draw, user_cache, department),
                          [cache_key |-> CacheKey(department),
                           cached |-> CacheKey(department) \in DOMAIN user_cache]))

\* generate_hostname(asset_type)
HostnameLookup ==
    \E asset_type \in {"server"} :
        Return("generate_hostname", [asset_type |-> asset_type],
               generate_hostname(config, Draw, user_cache, asset_cache, asset_type))

\* generate_event(timestamp, scenario, threat_probability)
EventGeneration ==
    \E scenario \in {NoneStr, "phantom_exfiltrator"} :
        Return("generate_event",
               [timestamp |-> At(Friday, 8, 15, 30), scenario |-> scenario,
                threat_probability |-> 800],
               generate_event(config, threat_indicators, Draw, user_cache, ip_cache,
                              At(Friday, 8, 15, 30), scenario, 800))

\* generate_scenario_events(scenario, start_time, end_time, event_count)
ScenarioEventGeneration ==
    \E scenario \in {"phantom_exfiltrator", "insider_threat"} :
        Return("generate_scenario_events",
               [scenario |-> scenario, start_time |-> ScenarioWindow.start_time,
                end_time |-> ScenarioWindow.end_time,
                event_count |-> MaxScenarioEvents],
               generate_scenario_events(config, threat_indicators, rng, user_cache,
                   ip_cache, scenario, ScenarioWindow.start_time,
                   ScenarioWindow.end_time, MaxScenarioEvents))

\* generate_bulk_events over BulkDays days, a tenth of the events the
\* phantom_exfiltrator scenario's.
BulkGeneration ==
    BulkCall({[start_time |-> At(0, 0, 0, 0), end_time |-> At(BulkDays, 0, 0, 0)]},
             {1}, {<<"phantom_exfiltrator">>})

\* The draws of the operations: with each of the first members of a pool
\* (user, target user), a size of the user pool, an outcome of the threat
\* draw and an end of the score ranges.
RegistryDraws ==
    {[DefaultDraw EXCEPT !.user = t, !.target = t, !.name = t, !.user_count = t,
                         !.u_threat = 999 * t, !.threat_score = 30 * t,
                         !.inj_score = 20 * t, !.secs = t * Day] :
        t \in 0..MaxChoice}

Init == Construct({ShippedConfig}, Tapes(RegistryDraws))

Next ==
    \/ UserIdLookup
    \/ HostnameLookup
    \/ EventGeneration
    \/ ScenarioEventGeneration
    \/ BulkGeneration

Spec == Init /\ [][Next]_vars

\* C8: the threat_score of every event generate_event or
\* generate_bulk_events returns lies in [0.0, 1.0] (0..100 hundredths), on the
\* benign branch, on the threat branch and after the scenario engine
\* overwrote it.
C8_ThreatScoreInRange ==
    \A e \in ReturnedEvents : e.threat_score \in 0..100

\* C8 witness: generate_event returned a threat event whose score the scenario
\* engine overwrote.
C8_Witness ==
    /\ last.op = "generate_event"
    /\ last.locals.is_threat
    /\ last.locals.event.threat_score \in 60..90
    /\ last.ret.threat_score \in 70..90
    /\ last.ret.threat_score # last.locals.event.threat_score

\* The step is a lookup generate_user_id makes with key k.
LooksUp(k) == last'.op = "generate_user_id" /\ last'.locals.cache_key = k

\* A step leaves the populated pool of key k as it is, and a lookup with k
\* returns one of its members.
PoolKept(k) ==
    /\ k \in DOMAIN user_cache'
    /\ user_cache'[k] = user_cache[k]
    /\ LooksUp(k) => last'.ret \in Range(user_cache[k])

\* C10 (amended): for every key of the identity cache other than the reserved
\* key 'scenario', once its pool is populated no engine operation changes the
\* pool's contents or size, and every later lookup with that key returns a
\* member of that pool.
C10_PoolsKeptButScenario ==
    [][\A k \in DOMAIN user_cache \ {"scenario"} : PoolKept(k)]_vars

\* C10 witness: scenario events have been generated, and a later lookup was
\* answered from a populated pool with one of its members.
C10_Witness ==
    /\ last.op = "generate_user_id"
    /\ last.locals.cached
    /\ last.locals.cache_key # "scenario"
    /\ "scenario" \in DOMAIN user_cache
    /\ last.ret \in Range(user_cache[last.locals.cache_key])

\* C10 (the claim as the specification states it): for every key of the
\* identity cache, once its pool is populated no engine operation changes the
\* pool's contents or size, and every later lookup with that key returns a
\* member of that pool.
C10_PoolsKept ==
    [][\A k \in DOMAIN user_cache : PoolKept(k)]_vars

\* The number of indicators of a type the engine holds.
IndicatorCount(indicators, type) ==
    Cardinality({i \in DOMAIN indicators : indicators[i].type = type})

\* C17: the threat-intelligence pool is fixed at construction, with 6 IP, 6
\* domain and 50 hash indicators, and no later engine operation adds, removes
\* or alters an indicator.
C17_IndicatorsFixed ==
    [][/\ IndicatorCount(threat_indicators, "ip") = 6
       /\ IndicatorCount(threat_indicators, "domain") = 6
       /\ IndicatorCount(threat_indicators, "hash") = 50
       /\ Len(threat_indicators) = 62
       /\ threat_indicators' = threat_indicators]_vars

\* C17 witness: an event was generated whose destination was sampled from the
\* pool's IP indicators, and the pool still has its 62 indicators.
C17_Witness ==
    /\ last.op = "generate_event"
    /\ last.ret.destination_ip \in Range(malicious_ips)
    /\ Len(threat_indicators) = 62

(***************************************************************************)
(* Calls of generate_hostname, with identity lookups between them.         *)
(***************************************************************************)
\* The asset types of the calls: the four of the count table and one it does
\* not list.
AssetTypes == {"workstation", "server", "mobile", "iot", "printer"}

GenerateHostnameCall ==
    \E asset_type \in AssetTypes :
        Return("generate_hostname", [asset_type |-> asset_type],
               generate_hostname(config, Draw, user_cache, asset_cache, asset_type))

GenerateUserIdCall ==
    \E department \in {NoneStr, "Sales"} :
        Return("generate_user_id", [department |-> department],
               WithLocals(generate_user_id(config, Draw, user_cache, department),
                          [cache_key |-> CacheKey(department),
                           cached |-> CacheKey(department) \in DOMAIN user_cache]))

InitAssets == Construct({ShippedConfig}, Tapes(RegistryDraws))

\* An identity lookup with the key the asset owners are drawn under.
AnyUserIdCall ==
    Return("generate_user_id", [department |-> NoneStr],
           generate_user_id(config, Draw, user_cache, NoneStr))

NextAssets == GenerateHostnameCall \/ AnyUserIdCall

SpecAssets == InitAssets /\ [][NextAssets]_vars

\* The number of assets the specification fixes for a type.
FixedAssetCount(asset_type) ==
    IF asset_type = "workstation" THEN 800
    ELSE IF asset_type = "server" THEN 100
    ELSE IF asset_type = "mobile" THEN 300
    ELSE IF asset_type = "iot" THEN 50
    ELSE 100

\* The step is a call generate_hostname(k).
HostnameCalled(k) == last'.op = "generate_hostname" /\ last'.args.asset_type = k

\* a is one of the assets of a pool.
InAssetPool(a, pool) == \E i \in 1..pool.count : a = AssetAt(pool, i)

\* C11: after the first generate_hostname call for a type the pool of the type
\* holds exactly the type's fixed number of assets (workstation 800, server
\* 100, mobile 300, iot 50, any other 100); a later call for the type returns
\* a member of the pool, and no later call repopulates or resizes the pool.
C11_AssetPoolFixed ==
    [][/\ \A k \in DOMAIN asset_cache' :
              asset_cache'[k].count = FixedAssetCount(k)
       /\ \A k \in AssetTypes :
              HostnameCalled(k) =>
                  /\ k \in DOMAIN asset_cache'
                  /\ InAssetPool(last'.ret, asset_cache'[k])
       /\ \A k \in DOMAIN asset_cache :
              /\ k \in DOMAIN asset_cache'
              /\ asset_cache'[k] = asset_cache[k]]_vars

\* C11 witness: pools of a listed and of an unlisted type are populated, and
\* the last call, for the listed type, returned one of its 800 assets.
C11_Witness ==
    /\ last.op = "generate_hostname"
    /\ last.args.asset_type = "workstation"
    /\ {"workstation", "printer", "iot"} \subseteq DOMAIN asset_cache
    /\ asset_cache["workstation"].count = 800
    /\ asset_cache["printer"].count = 100
    /\ InAssetPool(last.ret, asset_cache["workstation"])

(***************************************************************************)
(* Calls of generate_internal_ip, on engines constructed with and without  *)
(* an office table.                                                        *)
(***************************************************************************)
\* Two configured locations and one no configuration lists.
IpLocations == {"headquarters", "europe", "nowhere"}

GenerateInternalIpCall ==
    \E location \in IpLocations :
        Return("generate_internal_ip", [location |-> location],
               generate_internal_ip(config, Draw.source_ip, ip_cache, location))

\* Engines with the shipped configuration, with one without the
\* OFFICE_LOCATIONS table and with one whose europe office has a network of
\* six hosts; raw draws of random.choice(ips) below and above the length of
\* the pool.
InitIp ==
    Construct({ShippedConfig,
               Without(ShippedConfig, "OFFICE_LOCATIONS"),
               [ShippedConfig EXCEPT !.OFFICE_LOCATIONS.dict.europe.ip_range =
                                         <<10, 3, 5, 0, 29>>]},
              Tapes({[DefaultDraw EXCEPT !.source_ip = x] : x \in {0, 5, 999, 1003}}))

SpecIp == InitIp /\ [][GenerateInternalIpCall]_vars

\* The CIDR the constructed engine's configuration gives a location, the
\* default 10.1.0.0/16 when it gives none.
ConfiguredRange(location) ==
    IF /\ "OFFICE_LOCATIONS" \in DOMAIN config
       /\ location \in DOMAIN config.OFFICE_LOCATIONS.dict
       /\ "ip_range" \in DOMAIN config.OFFICE_LOCATIONS.dict[location]
    THEN config.OFFICE_LOCATIONS.dict[location].ip_range
    ELSE <<10, 1, 0, 0, 16>>

\* ip is one of the first (at most 1000) host addresses of a network.
AmongFirstHosts(ip, ip_range) ==
    \E i \in 1..1000 : i <= HostCount(ip_range) /\ ip = HostAt(ip_range, i)

\* C12: generate_internal_ip(location) never fails: a configured location
\* yields one of the first (at most 1000) host addresses of its CIDR, a
\* location the configuration lacks one of the first 1000 host addresses of
\* 10.1.0.0/16, and the pool computed at the first access is the pool every
\* later call for the location samples.
C12_InternalIpFromPool ==
    [][\A location \in IpLocations :
           (last'.op = "generate_internal_ip" /\ last'.args.location = location) =>
               /\ last'.raised = NoneStr
               /\ AmongFirstHosts(last'.ret, ConfiguredRange(location))
               /\ location \in DOMAIN ip_cache'
               /\ InIpPool(last'.ret, ip_cache'[location])
               /\ location \in DOMAIN ip_cache =>
                      ip_cache'[location] = ip_cache[location]]_vars

\* C12 witness: on an engine without an office table, a later call for an
\* unlisted location sampled the default network's pool with a draw beyond
\* its length.
C12_Witness ==
    /\ last.op = "generate_internal_ip"
    /\ last.args.location = "nowhere"
    /\ "OFFICE_LOCATIONS" \notin DOMAIN config
    /\ DOMAIN ip_cache = IpLocations
    /\ last.ret = <<10, 1, 0, 4>>

\* C12 witness of the short pool: the six-host network answered a draw of
\* 999 from its own six addresses.
C12_WitnessShort ==
    /\ last.op = "generate_internal_ip"
    /\ last.args.location = "europe"
    /\ ip_cache["europe"].count = 6
    /\ last.ret = <<10, 3, 5, 4>>

(***************************************************************************)
(* Calls of generate_external_ip, as a function of the indicator list the  *)
(* engine holds.                                                           *)
(***************************************************************************)
\* The indicator lists of the calls: the one the constructor loads, and the
\* same list without its IP indicators.
IndicatorLists ==
    {_load_threat_indicators,
     SelectSeq(_load_threat_indicators, LAMBDA ind : ind.type # "ip")}

GenerateExternalIpCall ==
    \E malicious \in BOOLEAN :
        Return("generate_external_ip", [malicious |-> malicious],
               [ret |-> generate_external_ip(threat_indicators, Draw.threat_ip,
                                             Draw.ipv4, malicious),
                locals |-> [ipv4 |-> Choice(Draw.ipv4, FakerIPv4)]])

\* The streams: draws of random.choice(threat_ips) and positions of Faker's
\* stream.
InitExternal ==
    /\ config = ShippedConfig
    /\ rng \in Tapes({[DefaultDraw EXCEPT !.threat_ip = c, !.ipv4 = f] :
                         c \in {0, 3, 5}, f \in 0..(Len(FakerIPv4) - 1)})
    /\ user_cache = EmptyDict
    /\ asset_cache = EmptyDict
    /\ ip_cache = EmptyDict
    /\ threat_indicators \in IndicatorLists
    /\ last = NoCall
    /\ workers = NoWorkers
    /\ driver = NotRun
    /\ frame = NoFrame

SpecExternal == InitExternal /\ [][GenerateExternalIpCall]_vars

\* The IP indicators the engine holds, as a set.
ThreatIpSet ==
    {threat_indicators[i].indicator :
        i \in {j \in DOMAIN threat_indicators : threat_indicators[j].type = "ip"}}

\* C13: generate_external_ip(malicious=True) returns one of the threat-intel
\* IP indicators whenever there is one and falls through to random generation
\* when there is none; malicious=False and the fall-through return only
\* addresses that are neither private nor loopback.
C13_ExternalIp ==
    last.op = "generate_external_ip" =>
        /\ last.raised = NoneStr
        /\ IF last.args.malicious /\ ThreatIpSet # {}
           THEN last.ret \in ThreatIpSet
           ELSE /\ last.ret \in Range(FakerIPv4)
                /\ ~IsPrivate(last.ret)
                /\ ~IsLoopback(last.ret)

\* C13 witness: malicious=True on an engine without IP indicators fell
\* through, and the loop passed over a loopback address before it returned.
C13_Witness ==
    /\ last.op = "generate_external_ip"
    /\ last.args.malicious
    /\ ThreatIpSet = {}
    /\ IsLoopback(last.locals.ipv4)
    /\ last.ret = <<8, 8, 4, 4>>

\* C13 witness of the indicator branch.
C13_WitnessIndicator ==
    /\ last.op = "generate_external_ip"
    /\ last.args.malicious
    /\ last.ret = <<178, 128, 83, 165>>

(***************************************************************************)
(* The engine constructed with a configuration that lacks a table or has   *)
(* an empty one.                                                           *)
(***************************************************************************)
GenerateGeolocationCall ==
    \E location_type \in {"office", "threat", "random"} :
        Return("generate_geolocation", [location_type |-> location_type],
               IF "raised" \in DOMAIN generate_geolocation(config, Draw.geo, location_type)
               THEN [ret |-> EmptyDict, raised |-> "IndexError"]
               ELSE [ret |-> generate_geolocation(config, Draw.geo, location_type)])

\* generate_event(timestamp), with the baseline and the scenario threat
\* probability.
BaselineEventCall ==
    \E threat_probability \in Probabilities :
        Return("generate_event",
               [timestamp |-> At(Friday, 8, 15, 30), scenario |-> NoneStr,
                threat_probability |-> threat_probability],
               generate_event(config, threat_indicators, Draw, user_cache, ip_cache,
                              At(Friday, 8, 15, 30), NoneStr, threat_probability))

\* The shipped configuration; the configurations lacking the department
\* list, the clearance list, the office table or the threat-location table;
\* and those with an empty department list or threat-location table.  The
\* streams have both outcomes of the threat draw: a threat event with an
\* external destination, and a normal event with an internal one.
InitSparse ==
    Construct({ShippedConfig,
               Without(ShippedConfig, "DEPARTMENTS"),
               Without(ShippedConfig, "SECURITY_CLEARANCES"),
               Without(ShippedConfig, "OFFICE_LOCATIONS"),
               Without(ShippedConfig, "THREAT_LOCATIONS"),
               [ShippedConfig EXCEPT !.DEPARTMENTS = <<>>],
               [ShippedConfig EXCEPT !.THREAT_LOCATIONS = <<>>]},
              Tapes({[DefaultDraw EXCEPT !.u_threat = t] : t \in UDraws}))

NextSparse ==
    \/ GenerateUserIdCall
    \/ HostnameLookup
    \/ GenerateGeolocationCall
    \/ BaselineEventCall

SpecSparse == InitSparse /\ [][NextSparse]_vars

\* C15: no engine operation (identity lookup, asset lookup, geolocation, event
\* generation) reaches an error state because a configuration table is
\* missing or empty: the missing table is replaced by its default and no pool
\* is sampled while empty.
C15_NoErrorState == last.raised = NoneStr

(***************************************************************************)
(* Two threads in generate_user_id() and generate_hostname('server') on    *)
(* one engine.  The methods take no lock, so a thread switch may fall      *)
(* between any two of their statements; the steps below are those          *)
(* statements: the membership test, the construction of the local list,    *)
(* the store, and the choice (the loop that builds a list, with the calls  *)
(* of generate_user_id() in it, is taken as one step: every interleaving   *)
(* below is one of the code).  The lists are built from the shared random  *)
(* stream.                                                                 *)
(***************************************************************************)
\* The cache key of a worker's call.
KeyOf(op) == IF op = "generate_user_id" THEN "any" ELSE "server"

\* The worker's record with a new position.
MovedTo(w, pc) == [workers EXCEPT ![w].pc = pc]

\* A worker enters one of the two methods.
Call(w) ==
    /\ workers[w].pc = "idle"
    /\ \E op \in {"generate_user_id", "generate_hostname"} :
           workers' = [workers EXCEPT ![w] = [Idle EXCEPT !.pc = "check", !.op = op]]
    /\ UNCHANGED <<config, rng, user_cache, asset_cache, ip_cache,
                   threat_indicators, last, driver, frame>>

\* if cache_key in self._user_cache: ...
\* if cache_key not in self._asset_cache: self._asset_cache[cache_key] = []
\* if self._asset_cache[cache_key]: ...
CheckCache(w) ==
    /\ workers[w].pc = "check"
    /\ IF workers[w].op = "generate_user_id"
       THEN /\ workers' = MovedTo(w, IF "any" \in DOMAIN user_cache THEN "cached"
                                 ELSE "build")
            /\ UNCHANGED asset_cache
       ELSE IF "server" \in DOMAIN asset_cache
       THEN /\ workers' = MovedTo(w, IF asset_cache["server"].count > 0 THEN "cached"
                                 ELSE "build")
            /\ UNCHANGED asset_cache
       ELSE /\ workers' = MovedTo(w, "build")
            /\ asset_cache' = Store(asset_cache, "server", EmptyAssets("server"))
    /\ UNCHANGED <<config, rng, user_cache, ip_cache, threat_indicators, last,
                   driver, frame>>

\* users = []; for dept in departments: ... users.append(user)
\* assets = []; for i in range(asset_count): ... assets.append(asset), the
\* owners drawn by generate_user_id().
BuildPool(w) ==
    /\ workers[w].pc = "build"
    /\ IF workers[w].op = "generate_user_id"
       THEN /\ workers' = [workers EXCEPT ![w].pc = "store",
                               ![w].pool = NewUsers(config, Draw, config.DEPARTMENTS, 1)]
            /\ UNCHANGED user_cache
       ELSE /\ workers' = [workers EXCEPT ![w].pc = "store",
                               ![w].pool =
                                   [asset_type |-> "server",
                                    count |-> asset_count("server"),
                                    owners |-> generate_user_id(config, Draw, user_cache,
                                                   NoneStr).user_cache["any"],
                                    seed |-> Draw.user]]
            /\ user_cache' = generate_user_id(config, Draw, user_cache, NoneStr).user_cache
    /\ rng' = Advance(rng)
    /\ UNCHANGED <<config, asset_cache, ip_cache, threat_indicators, last, driver, frame>>

\* self._user_cache[cache_key] = users
\* self._asset_cache[cache_key] = assets
StorePool(w) ==
    /\ workers[w].pc = "store"
    /\ workers' = [workers EXCEPT ![w].pc = "choose", ![w].stored = TRUE]
    /\ IF workers[w].op = "generate_user_id"
       THEN /\ user_cache' = Store(user_cache, "any", workers[w].pool)
            /\ UNCHANGED asset_cache
       ELSE /\ asset_cache' = Store(asset_cache, "server", workers[w].pool)
            /\ UNCHANGED user_cache
    /\ UNCHANGED <<config, rng, ip_cache, threat_indicators, last, driver, frame>>

\* The record of a worker's finished call: locals.pool is the list sampled.
Finished(w, pool, ret) ==
    [op |-> workers[w].op, args |-> [worker |-> w], ret |-> ret,
     locals |-> [pool |-> pool], raised |-> NoneStr]

\* random.choice of a list of users or of assets.
PoolChoice(op, r, pool) ==
    IF op = "generate_user_id" THEN Choice(r, pool)
    ELSE AssetAt(pool, (r % pool.count) + 1)

\* return random.choice(users) / return random.choice(assets): the local list.
ChooseLocal(w) ==
    /\ workers[w].pc = "choose"
    /\ workers' = MovedTo(w, "done")
    /\ last' = Finished(w, workers[w].pool,
                        PoolChoice(workers[w].op, Draw.user, workers[w].pool))
    /\ rng' = Advance(rng)
    /\ UNCHANGED <<config, user_cache, asset_cache, ip_cache, threat_indicators,
                   driver, frame>>

\* return random.choice(self._user_cache[cache_key])
\* return random.choice(self._asset_cache[cache_key])
ChooseCached(w) ==
    /\ workers[w].pc = "cached"
    /\ workers' = [workers EXCEPT ![w].pc = "done",
                       ![w].pool = IF workers[w].op = "generate_user_id"
                                   THEN user_cache["any"] ELSE asset_cache["server"]]
    /\ last' = Finished(w, workers'[w].pool,
                        PoolChoice(workers[w].op, Draw.user, workers'[w].pool))
    /\ rng' = Advance(rng)
    /\ UNCHANGED <<config, user_cache, asset_cache, ip_cache, threat_indicators,
                   driver, frame>>

\* The draws make the list a thread builds depend on when it builds it.
InitWorkers ==
    Construct({ShippedConfig},
              Tapes({[DefaultDraw EXCEPT !.user = t, !.name = 2 * t, !.user_count = t] :
                        t \in 0..MaxChoice}))

NextWorkers ==
    \E w \in Workers :
        \/ Call(w)
        \/ CheckCache(w)
        \/ BuildPool(w)
        \/ StorePool(w)
        \/ ChooseLocal(w)
        \/ ChooseCached(w)

SpecWorkers == InitWorkers /\ [][NextWorkers]_vars

\* The pool now cached under the key of a method.
CachedPool(op) ==
    IF op = "generate_user_id" THEN user_cache["any"] ELSE asset_cache["server"]

\* C16: when two workers concurrently make the first access to the same
\* unpopulated cache key, the pool is populated at most once, both sample
\* from one and the same pool, and no second population overwrites the pool
\* a worker has already sampled from.
C16_PopulatedOnce ==
    \A v \in Workers, w \in Workers :
        (v # w /\ workers[v].op = workers[w].op /\ workers[v].op # NoneStr) =>
            /\ ~(workers[v].stored /\ workers[w].stored)
            /\ (workers[v].pc = "done" /\ workers[w].pc = "done") =>
                   workers[v].pool = workers[w].pool
            /\ workers[v].pc = "done" => CachedPool(workers[v].op) = workers[v].pool

(***************************************************************************)
(* generate_security_data.main: the reference data, then the network logs. *)
(* Each of the two functions constructs a generator of its own; the        *)
(* engine variables hold the state of the generator constructed last.      *)
(***************************************************************************)
\* for dept in DEPARTMENTS: base_gen.generate_user_id(dept);
\* all_users.extend(base_gen._user_cache.get(dept, [])).  A new generator has
\* no pool, so every department is generated.  locals: the departments done.
ReferenceUsersIteration(cfg, dept, acc, got) ==
    [ret |-> acc.ret \o GetOr(got.user_cache, dept, <<>>),
     user_cache |-> got.user_cache,
     rng |-> Advance(acc.rng),
     locals |-> Append(acc.locals, dept)]

RECURSIVE ReferenceUsersLoop(_, _, _)
ReferenceUsersLoop(cfg, departments, acc) ==
    IF Len(acc.locals) >= Len(departments) THEN acc
    ELSE ReferenceUsersLoop(cfg, departments,
             ReferenceUsersIteration(cfg, departments[Len(acc.locals) + 1], acc,
                 generate_user_id(cfg, Head(acc.rng), acc.user_cache,
                                  departments[Len(acc.locals) + 1])))

\* for asset_type in ['workstation', 'server', 'mobile']:
\*     base_gen.generate_hostname(asset_type); all_assets.extend(...)
ReferenceAssetsIteration(asset_type, acc, got) ==
    [ret |-> Append(acc.ret, got.asset_cache[asset_type]),
     user_cache |-> got.user_cache,
     asset_cache |-> got.asset_cache,
     rng |-> Advance(acc.rng),
     users |-> acc.users]

RECURSIVE ReferenceAssetsLoop(_, _, _)
ReferenceAssetsLoop(cfg, asset_types, acc) ==
    IF Len(acc.ret) >= Len(asset_types) THEN acc
    ELSE ReferenceAssetsLoop(cfg, asset_types,
             ReferenceAssetsIteration(asset_types[Len(acc.ret) + 1], acc,
                 generate_hostname(cfg, Head(acc.rng), acc.user_cache, acc.asset_cache,
                                   asset_types[Len(acc.ret) + 1])))

\* The users of the reference data, then its assets.
ReferenceAssets(cfg, u) ==
    ReferenceAssetsLoop(cfg, <<"workstation", "server", "mobile">>,
        [ret |-> <<>>, user_cache |-> u.user_cache, asset_cache |-> EmptyDict,
         rng |-> u.rng, users |-> u.ret])

\* base_gen = BaseSecurityGenerator(config), the users and the assets.
generate_reference_data(cfg, stream) ==
    ReferenceAssets(cfg,
        ReferenceUsersLoop(cfg, GetOr(cfg, "DEPARTMENTS", <<>>),
            [ret |-> <<>>, user_cache |-> EmptyDict, rng |-> stream, locals |-> <<>>]))

\* The state after generate_reference_data returned ref: the caches are those
\* of base_gen.
ReferenceReturn(ref) ==
    /\ driver' = [driver EXCEPT !.pc = "reference", !.users = ref.users,
                                !.assets = ref.ret]
    /\ user_cache' = ref.user_cache
    /\ asset_cache' = ref.asset_cache
    /\ ip_cache' = EmptyDict
    /\ rng' = ref.rng
    /\ last' = [op |-> "generate_reference_data", args |-> EmptyDict,
                ret |-> EmptyDict, locals |-> EmptyDict, raised |-> NoneStr]
    /\ UNCHANGED <<config, threat_indicators, workers, frame>>

GenerateReferenceData ==
    /\ driver.pc = "start"
    /\ ReferenceReturn(generate_reference_data(config, rng))

\* The state after the bulk call of generate_network_logs returned r: the
\* caches are those of the NetworkLogGenerator it constructed.
NetworkLogsReturn(args, r) ==
    /\ driver' = [driver EXCEPT !.pc = "done", !.events = r.ret]
    /\ user_cache' = r.user_cache
    /\ asset_cache' = EmptyDict
    /\ ip_cache' = r.ip_cache
    /\ rng' = r.rng
    /\ last' = [op |-> "generate_network_logs", args |-> args, ret |-> r.ret,
                locals |-> r.locals, raised |-> NoneStr]
    /\ UNCHANGED <<config, threat_indicators, workers, frame>>

\* generator = NetworkLogGenerator(config); generate_bulk_events(START_DATE,
\* END_DATE = START_DATE + days, daily_events, scenarios), with --scenarios
\* or without.  daily_events is scaled to MaxEventsPerDay.
GenerateNetworkLogs ==
    /\ driver.pc = "reference"
    /\ \E days \in {1, BulkDays}, with_scenarios \in BOOLEAN :
           NetworkLogsReturn(
               [days |-> days, scenarios |-> with_scenarios],
               generate_bulk_events(config, _load_threat_indicators, rng, EmptyDict,
                   EmptyDict, At(0, 0, 0, 0), At(days, 0, 0, 0), MaxEventsPerDay,
                   IF with_scenarios THEN <<"phantom_exfiltrator", "insider_threat">>
                   ELSE <<>>))

\* main() builds the shipped configuration.  The streams: draws of names, of
\* members of a pool (among them members past the first department's) and of
\* the target draw.
InitDriver ==
    Construct({ShippedConfig},
              Tapes({[DefaultDraw EXCEPT !.name = n, !.user = c, !.target = c,
                                         !.u_target = g, !.u_threat = g,
                                         !.inj_hour = 3, !.inj_score = 20,
                                         !.threat_score = 30] :
                        n \in {0, 3}, c \in {0, 1, 4}, g \in UDraws}))

NextDriver == GenerateReferenceData \/ GenerateNetworkLogs

SpecDriver == InitDriver /\ [][NextDriver]_vars

\* The user ids of the users reference data the driver emitted.
ReferenceUserIds == {driver.users[j].user_id : j \in DOMAIN driver.users}

MaxTimeline == 2

\* The entries of the timelines, and the timelines: in any order of days.
PhaseEntries ==
    [day : {1, 7, 14}, phase : {"reconnaissance", "exfiltration"}]

Timelines == UNION {[1..n -> PhaseEntries] : n \in 0..MaxTimeline}

\* duration_days, which is what days_elapsed comes to.
Durations == {0, 1, 10, 14}

\* The shipped configuration with another phantom_exfiltrator scenario.
WithPhantom(scenario_config) ==
    [ShippedConfig EXCEPT !.THREAT_SCENARIOS =
        [THREAT_SCENARIOS EXCEPT !.phantom_exfiltrator = scenario_config]]

\* A network event, and an event with the fields of other log types.
SampleEvents ==
    {[event_time |-> t, destination_ip |-> <<8, 8, 4, 4>>, threat_score |-> 10,
      user_id |-> "jsmith"] : t \in EventTimes}
    \cup {[event_time |-> t, destination_ip |-> <<8, 8, 4, 4>>, threat_score |-> 10,
           user_id |-> "jsmith", bytes_transferred |-> 100, file_path |-> "/tmp/x"] :
          t \in EventTimes}

\* The scenario definition the engine's configuration has for a name.
ScenarioConfig(scenario) ==
    GetOr(GetOr(config, "THREAT_SCENARIOS", EmptyDict), scenario, EmptyDict)

\* locals: days_elapsed and current_phase as the call computes them (None
\* when the scenario is not configured).
InjectCall ==
    \E event \in SampleEvents,
       scenario \in {"phantom_exfiltrator", "insider_threat", "supply_chain_attack",
                     Unconfigured} :
        Return("inject_threat_scenario",
               [event |-> event, scenario |-> scenario, current_time |-> event.event_time],
               [ret |-> inject_threat_scenario(config, threat_indicators, Draw, event,
                                               scenario, event.event_time),
                locals |->
                    IF DOMAIN ScenarioConfig(scenario) = {}
                    THEN [days_elapsed |-> None, current_phase |-> EmptyDict]
                    ELSE [days_elapsed |->
                              DaysElapsed(ScenarioConfig(scenario), event.event_time),
                          current_phase |->
                              CurrentPhase(
                                  GetOr(ScenarioConfig(scenario), "timeline", <<>>),
                                  DaysElapsed(ScenarioConfig(scenario),
                                              event.event_time))]])

\* A configuration whose supply_chain_attack scenario has a timeline.
SupplyChainConfig ==
    [ShippedConfig EXCEPT !.THREAT_SCENARIOS.supply_chain_attack =
        [duration_days |-> 60, timeline |-> <<[day |-> 1, phase |-> "exfiltration"]>>]]

\* Scenario tables whose phantom_exfiltrator has a timeline, or none; the
\* shipped table; one whose supply_chain_attack has a timeline; and a
\* configuration without a scenario table.
InitInject ==
    Construct({WithPhantom([duration_days |-> n, timeline |-> tl]) :
                   n \in Durations, tl \in Timelines}
              \cup {WithPhantom([duration_days |-> n]) : n \in Durations}
              \cup {ShippedConfig, SupplyChainConfig,
                    Without(ShippedConfig, "THREAT_SCENARIOS")},
              Tapes({[DefaultDraw EXCEPT !.inj_hour = 3, !.inj_score = 20]}))

SpecInject == InitInject /\ [][InjectCall]_vars

InjectCalled == last.op = "inject_threat_scenario"

\* The scenario of the last call is absent from the configured scenarios.
ScenarioAbsent ==
    \/ "THREAT_SCENARIOS" \notin DOMAIN config
    \/ last.args.scenario \notin DOMAIN config.THREAT_SCENARIOS

\* C19: inject_threat_scenario with a scenario name absent from
\* THREAT_SCENARIOS returns the event with every field unchanged and raises
\* nothing, whatever the event and the time.
C19_AbsentScenarioUnchanged ==
    (InjectCalled /\ ScenarioAbsent) =>
        /\ last.ret = last.args.event
        /\ last.raised = NoneStr

\* C19 witness: an unconfigured scenario on an event with a file_path, on an
\* engine that has a scenario table.
C19_Witness ==
    /\ InjectCalled
    /\ "THREAT_SCENARIOS" \in DOMAIN config
    /\ last.args.scenario = Unconfigured
    /\ "file_path" \in DOMAIN last.args.event
    /\ last.ret = last.args.event

\* The timeline of the scenario of the last call, empty if it has none.
TimelineOfCall == GetOr(ScenarioConfig(last.args.scenario), "timeline", <<>>)

\* A timeline is ordered by day ascending.
Ascending(timeline) ==
    \A i \in DOMAIN timeline, j \in DOMAIN timeline :
        i < j => timeline[i].day <= timeline[j].day

\* The entries of the last call's timeline with day <= days_elapsed.
Qualifying ==
    {i \in DOMAIN TimelineOfCall : TimelineOfCall[i].day <= last.locals.days_elapsed}

\* C20: for a scenario whose timeline is ordered by day ascending, the phase
\* inject_threat_scenario selects is the entry with the highest day not
\* exceeding days_elapsed; when no entry qualifies (an empty or missing
\* timeline included) no phase is selected and the event is returned
\* unmodified.
C20_HighestDayPhase ==
    (InjectCalled /\ ~ScenarioAbsent /\ Ascending(TimelineOfCall)) =>
        IF Qualifying = {}
        THEN /\ last.locals.current_phase = EmptyDict
             /\ last.ret = last.args.event
        ELSE /\ last.locals.current_phase \in Range(TimelineOfCall)
             /\ last.locals.current_phase.day <= last.locals.days_elapsed
             /\ \A i \in Qualifying :
                    TimelineOfCall[i].day <= last.locals.current_phase.day

\* C20 witness: of two qualifying entries of an ascending timeline the later,
\* the exfiltration phase, was selected, and the event was modified.
C20_Witness ==
    /\ InjectCalled
    /\ ~ScenarioAbsent
    /\ Ascending(TimelineOfCall)
    /\ Cardinality(Qualifying) = 2
    /\ TimelineOfCall[1].day < TimelineOfCall[2].day
    /\ last.locals.current_phase = TimelineOfCall[2]
    /\ last.locals.current_phase.phase = "exfiltration"
    /\ last.ret # last.args.event

\* C20 witness of the other case: a timeline whose first day lies beyond
\* days_elapsed selected no phase.
C20_WitnessNone ==
    /\ InjectCalled
    /\ ~ScenarioAbsent
    /\ TimelineOfCall # <<>>
    /\ Qualifying = {}
    /\ last.ret = last.args.event

\* C21: in inject_threat_scenario days_elapsed equals the scenario's
\* duration_days whatever current_time is passed, so the phase selected for a
\* scenario is the same at every current_time; for the shipped
\* phantom_exfiltrator (duration_days 45) it is the day-42 exfiltration phase.
C21_DaysElapsedIsDuration ==
    [][(InjectCalled' /\ ~ScenarioAbsent') =>
           /\ last'.locals.days_elapsed =
                  GetOr(config.THREAT_SCENARIOS[last'.args.scenario], "duration_days", 30)
           /\ (InjectCalled /\ last.args.scenario = last'.args.scenario) =>
                  last'.locals.current_phase = last.locals.current_phase
           /\ (config = ShippedConfig /\ last'.args.scenario = "phantom_exfiltrator") =>
                  last'.locals.current_phase = [day |-> 42, phase |-> "exfiltration"]]_vars

\* C21 witness: on the shipped configuration, a phantom_exfiltrator call on a
\* Saturday, a day after the start of the window, found 45 days elapsed and
\* the exfiltration phase.
C21_Witness ==
    /\ InjectCalled
    /\ config = ShippedConfig
    /\ last.args.scenario = "phantom_exfiltrator"
    /\ Weekday(last.args.current_time) = Saturday
    /\ last.locals.days_elapsed = 45
    /\ last.locals.current_phase.phase = "exfiltration"
    /\ last.ret # last.args.event

\* The call selected the exfiltration phase of phantom_exfiltrator.
PhantomExfiltrating ==
    /\ last.args.scenario = "phantom_exfiltrator"
    /\ DOMAIN last.locals.current_phase # {}
    /\ last.locals.current_phase.phase = "exfiltration"

\* C23: inject_threat_scenario returns the event with every field unchanged
\* when the scenario is neither insider_threat nor phantom_exfiltrator in its
\* exfiltration phase; for phantom_exfiltrator in its exfiltration phase it
\* changes only destination_ip, threat_score and the byte-count field
\* bytes_transferred, and adds or removes no field.
C23_InjectionFrame ==
    InjectCalled =>
        /\ (last.args.scenario # "insider_threat" /\ ~PhantomExfiltrating) =>
               last.ret = last.args.event
        /\ PhantomExfiltrating =>
               /\ DOMAIN last.ret = DOMAIN last.args.event
               /\ \A f \in DOMAIN last.args.event \
                           {"destination_ip", "threat_score", "bytes_transferred"} :
                      last.ret[f] = last.args.event[f]

\* C23 witness: a phantom_exfiltrator call in the exfiltration phase rewrote
\* destination_ip, threat_score and bytes_transferred of an event that also
\* carries a file_path.
C23_Witness ==
    /\ InjectCalled
    /\ PhantomExfiltrating
    /\ "file_path" \in DOMAIN last.args.event
    /\ last.ret.destination_ip # last.args.event.destination_ip
    /\ last.ret.threat_score # last.args.event.threat_score
    /\ last.ret.bytes_transferred # last.args.event.bytes_transferred

\* C23 witness: a supply_chain_attack call that selected a phase returned the
\* event as it was.
C23_WitnessOtherScenario ==
    /\ InjectCalled
    /\ last.args.scenario = "supply_chain_attack"
    /\ DOMAIN last.locals.current_phase # {}
    /\ last.ret = last.args.event

\* C23 witness: a phantom_exfiltrator call in an earlier phase returned the
\* event as it was.
C23_WitnessEarlierPhase ==
    /\ InjectCalled
    /\ last.args.scenario = "phantom_exfiltrator"
    /\ DOMAIN last.locals.current_phase # {}
    /\ last.locals.current_phase.phase = "reconnaissance"
    /\ last.ret = last.args.event

\* C24: generate_event without a scenario: when the threat draw succeeded,
\* destination_ip is one of the IP indicators of the threat pool and
\* threat_score lies in [0.6, 0.9]; otherwise destination_ip is an internal
\* address of the user's location or a non-private, non-loopback external
\* address, and threat_score lies in [0.0, 0.3]. No score lies strictly
\* between 0.3 and 0.6.
C24_ThreatDrawDecides ==
    (last.op = "generate_event" /\ last.args.scenario = NoneStr) =>
        /\ last.locals.is_threat =>
               /\ last.ret.destination_ip \in Range(ThreatIps(threat_indicators))
               /\ last.ret.threat_score \in 60..90
        /\ ~last.locals.is_threat =>
               /\ \/ AmongFirstHosts(last.ret.destination_ip,
                                     ConfiguredRange(last.locals.user.location))
                  \/ /\ ~IsPrivate(last.ret.destination_ip)
                     /\ ~IsLoopback(last.ret.destination_ip)
               /\ last.ret.threat_score \in 0..30
        /\ last.ret.threat_score \notin 31..59

\* C24 witness: a threat event with score 0.9 and a threat-pool destination.
C24_Witness ==
    /\ last.op = "generate_event"
    /\ last.args.scenario = NoneStr
    /\ last.locals.is_threat
    /\ last.ret.threat_score = 90
    /\ last.ret.destination_ip \in Range(ThreatIps(threat_indicators))

\* C24 witness: a benign event with score 0.3 and an internal destination.
C24_WitnessInternal ==
    /\ last.op = "generate_event"
    /\ last.args.scenario = NoneStr
    /\ ~last.locals.is_threat
    /\ last.ret.threat_score = 30
    /\ StartsWith10(last.ret.destination_ip)

\* C24 witness: a benign event with an external destination.
C24_WitnessExternal ==
    /\ last.op = "generate_event"
    /\ last.args.scenario = NoneStr
    /\ ~last.locals.is_threat
    /\ ~IsPrivate(last.ret.destination_ip)

\* The three registries of one engine, each called for two or three keys.
PoolHostnameCall ==
    \E asset_type \in {"server", "iot"} :
        Return("generate_hostname", [asset_type |-> asset_type],
               generate_hostname(config, Draw, user_cache, asset_cache, asset_type))

InitPools ==
    Construct({ShippedConfig},
              Tapes({[DefaultDraw EXCEPT !.user = t, !.name = t, !.source_ip = 999 * t] :
                        t \in 0..MaxChoice}))

NextPools == GenerateUserIdCall \/ GenerateInternalIpCall \/ PoolHostnameCall

SpecPools == InitPools /\ [][NextPools]_vars

\* Two caches agree on every key but k.
SameExcept(old, new, k) ==
    /\ DOMAIN new \ {k} = DOMAIN old \ {k}
    /\ \A j \in DOMAIN old \ {k} : new[j] = old[j]

\* C30: cache population is local to its key: generate_user_id(k) changes at
\* most identity pool k, generate_internal_ip(l) at most IP pool l, and
\* generate_hostname(t) at most asset pool t plus the first population of the
\* 'any' identity pool; every other pool and the threat-intelligence pool are
\* unchanged.
C30_PopulationLocalToKey ==
    [][/\ threat_indicators' = threat_indicators
       /\ last'.op = "generate_user_id" =>
              /\ SameExcept(user_cache, user_cache',
                            IF last'.args.department = NoneStr THEN "any"
                            ELSE last'.args.department)
              /\ ip_cache' = ip_cache
              /\ asset_cache' = asset_cache
       /\ last'.op = "generate_internal_ip" =>
              /\ SameExcept(ip_cache, ip_cache', last'.args.location)
              /\ user_cache' = user_cache
              /\ asset_cache' = asset_cache
       /\ last'.op = "generate_hostname" =>
              /\ SameExcept(asset_cache, asset_cache', last'.args.asset_type)
              /\ SameExcept(user_cache, user_cache', "any")
              /\ "any" \in DOMAIN user_cache => user_cache' = user_cache
              /\ ip_cache' = ip_cache]_vars

\* C30 witness: all three registries hold two pools, and the last call, a
\* generate_hostname for a type not cached before, populated the pool.
C30_Witness ==
    /\ DOMAIN user_cache = {"any", "Sales"}
    /\ DOMAIN asset_cache = {"server", "iot"}
    /\ {"headquarters", "europe"} \subseteq DOMAIN ip_cache
    /\ last.op = "generate_hostname"

(***************************************************************************)
(* One generate_bulk_events call, statement by statement: the position in  *)
(* its loops, in the weekend loop of generate_timestamp and in the         *)
(* rejection loop of generate_external_ip.  frame holds the locals the     *)
(* loops test; the events themselves and the registries, which no loop     *)
(* condition reads, are those of the call as one action above.             *)
(***************************************************************************)
\* total_days, total_events, events = [], scenario_events = [] and, if
\* scenarios, events_for_scenario.
EnterBulk(start_time, end_time, total_events, scenarios) ==
    [pc |-> "scenarios", start_time |-> start_time, end_time |-> end_time,
     total_events |-> total_events, scenarios |-> scenarios,
     events_for_scenario |->
         IF scenarios # <<>>
         THEN EventsForScenario(ScenarioEventCount(total_events), scenarios)
         ELSE 0,
     scenario |-> NoneStr, i |-> 0, scenario_events |-> 0, events |-> 0,
     timestamp |-> None, rolls |-> 0, ip |-> <<>>, resume |-> NoneStr]

BulkEnter ==
    /\ frame.pc = "idle"
    /\ \E w \in BulkWindows, events_per_day \in (-1)..MaxEventsPerDay,
          scenarios \in ScenarioLists :
           frame' = EnterBulk(w.start_time, w.end_time,
                              events_per_day * Days(w.end_time - w.start_time),
                              scenarios)
    /\ UNCHANGED <<config, rng, user_cache, asset_cache, ip_cache,
                   threat_indicators, last, workers, driver>>

\* for scenario in scenarios: generate_scenario_events(scenario, ...), which
\* returns at once for a scenario the configuration lacks.
ScenarioEnter ==
    /\ frame.pc = "scenarios"
    /\ frame.scenarios # <<>>
    /\ frame' =
           IF DOMAIN GetOr(GetOr(config, "THREAT_SCENARIOS", EmptyDict),
                           Head(frame.scenarios), EmptyDict) = {}
           THEN [frame EXCEPT !.scenarios = Tail(@)]
           ELSE [frame EXCEPT !.pc = "scenario_loop",
                              !.scenario = Head(frame.scenarios), !.i = 0]
    /\ UNCHANGED <<config, rng, user_cache, asset_cache, ip_cache,
                   threat_indicators, last, workers, driver>>

\* The scenario loop is over: normal_event_count is tested by the loop below.
NormalEnter ==
    /\ frame.pc = "scenarios"
    /\ frame.scenarios = <<>>
    /\ frame' = [frame EXCEPT !.pc = "normal_loop"]
    /\ UNCHANGED <<config, rng, user_cache, asset_cache, ip_cache,
                   threat_indicators, last, workers, driver>>

\* generate_timestamp up to its weekend loop, with the draw d.
TimestampDrawn(f, d, business_hours_bias) ==
    IF BiasTaken(d, business_hours_bias)
    THEN [f EXCEPT !.pc = "weekend",
                   !.timestamp = BusinessHours(d, BaseTime(d, f.start_time, f.end_time))]
    ELSE [f EXCEPT !.pc = "event",
                   !.timestamp = BaseTime(d, f.start_time, f.end_time)]

\* for i in range(event_count): timestamp = self.generate_timestamp(...)
ScenarioIterationStep ==
    /\ frame.pc = "scenario_loop"
    /\ frame.i < frame.events_for_scenario
    /\ \E secs \in {0, Day, 5 * Day}, u \in UDraws :
           frame' = TimestampDrawn(frame,
                        [DefaultDraw EXCEPT !.secs = secs, !.u_bias = u, !.hour = u],
                        300)
    /\ UNCHANGED <<config, rng, user_cache, asset_cache, ip_cache,
                   threat_indicators, last, workers, driver>>

\* return events of generate_scenario_events; scenario_events.extend(...)
ScenarioReturn ==
    /\ frame.pc = "scenario_loop"
    /\ frame.i >= frame.events_for_scenario
    /\ frame' = [frame EXCEPT !.pc = "scenarios", !.scenarios = Tail(@),
                              !.scenario = NoneStr]
    /\ UNCHANGED <<config, rng, user_cache, asset_cache, ip_cache,
                   threat_indicators, last, workers, driver>>

\* for i in range(normal_event_count): timestamp = self.generate_timestamp(...)
NormalIterationStep ==
    /\ frame.pc = "normal_loop"
    /\ frame.events < frame.total_events - frame.scenario_events
    /\ \E secs \in {0, Day, 5 * Day}, u \in UDraws :
           frame' = TimestampDrawn(frame,
                        [DefaultDraw EXCEPT !.secs = secs, !.u_bias = u, !.hour = u],
                        700)
    /\ UNCHANGED <<config, rng, user_cache, asset_cache, ip_cache,
                   threat_indicators, last, workers, driver>>

\* all_events.sort(...); return all_events
BulkSortAndReturn ==
    /\ frame.pc = "normal_loop"
    /\ frame.events >= frame.total_events - frame.scenario_events
    /\ frame' = [frame EXCEPT !.pc = "done"]
    /\ UNCHANGED <<config, rng, user_cache, asset_cache, ip_cache,
                   threat_indicators, last, workers, driver>>

\* while timestamp.weekday() >= 5: timestamp += timedelta(days=1)
RollForward ==
    /\ frame.pc = "weekend"
    /\ Weekday(frame.timestamp) >= Saturday
    /\ frame' = [frame EXCEPT !.timestamp = @ + Day, !.rolls = @ + 1]
    /\ UNCHANGED <<config, rng, user_cache, asset_cache, ip_cache,
                   threat_indicators, last, workers, driver>>

\* The weekend loop is over: return timestamp.
WeekendOver ==
    /\ frame.pc = "weekend"
    /\ Weekday(frame.timestamp) < Saturday
    /\ frame' = [frame EXCEPT !.pc = "event"]
    /\ UNCHANGED <<config, rng, user_cache, asset_cache, ip_cache,
                   threat_indicators, last, workers, driver>>

\* generate_event up to its destination: a threat takes an address of the
\* threat pool if it has one; a threat without one and an external benign
\* destination enter the rejection loop.  The two draws fall on either side
\* of their thresholds.
EventDestination ==
    /\ frame.pc = "event"
    /\ \E is_threat \in BOOLEAN, internal \in BOOLEAN :
           frame' =
               IF IF is_threat THEN ThreatIps(threat_indicators) = <<>> ELSE ~internal
               THEN [frame EXCEPT !.pc = "faker", !.resume = "inject"]
               ELSE [frame EXCEPT !.pc = "inject"]
    /\ UNCHANGED <<config, rng, user_cache, asset_cache, ip_cache,
                   threat_indicators, last, workers, driver>>

\* events.append(event), back at the head of the loop the event belongs to.
Appended(f) ==
    IF f.scenario # NoneStr
    THEN [f EXCEPT !.pc = "scenario_loop", !.i = @ + 1, !.scenario_events = @ + 1,
                   !.timestamp = None, !.rolls = 0, !.ip = <<>>, !.resume = NoneStr]
    ELSE [f EXCEPT !.pc = "normal_loop", !.events = @ + 1,
                   !.timestamp = None, !.rolls = 0, !.ip = <<>>, !.resume = NoneStr]

\* One turn of `while True` that drew a private or a loopback address.
FakerReject ==
    /\ frame.pc = "faker"
    /\ \E ip \in Range(FakerIPv4) :
           /\ IsPrivate(ip) \/ IsLoopback(ip)
           /\ frame' = [frame EXCEPT !.ip = ip]
    /\ UNCHANGED <<config, rng, user_cache, asset_cache, ip_cache,
                   threat_indicators, last, workers, driver>>

\* The turn of `while True` that drew a public address: return ip.
FakerAccept ==
    /\ frame.pc = "faker"
    /\ \E ip \in Range(FakerIPv4) :
           /\ ~IsPrivate(ip) /\ ~IsLoopback(ip)
           /\ frame' = IF frame.resume = "inject"
                       THEN [frame EXCEPT !.pc = "inject", !.ip = <<>>]
                       ELSE Appended(frame)
    /\ UNCHANGED <<config, rng, user_cache, asset_cache, ip_cache,
                   threat_indicators, last, workers, driver>>

\* inject_threat_scenario reaches generate_external_ip(malicious=True).
Exfiltrates(cfg, scenario, current_time) ==
    LET scenario_config == GetOr(GetOr(cfg, "THREAT_SCENARIOS", EmptyDict), scenario, EmptyDict)
    IN  /\ scenario = "phantom_exfiltrator"
        /\ DOMAIN scenario_config # {}
        /\ LET current_phase == CurrentPhase(GetOr(scenario_config, "timeline", <<>>),
                                             DaysElapsed(scenario_config, current_time))
           IN  DOMAIN current_phase # {} /\ current_phase.phase = "exfiltration"

\* if scenario: event = self.inject_threat_scenario(...); the exfiltration
\* branch enters the rejection loop when the threat pool has no address.
InjectStep ==
    /\ frame.pc = "inject"
    /\ frame' =
           IF /\ frame.scenario # NoneStr
              /\ Exfiltrates(config, frame.scenario, frame.timestamp)
              /\ ThreatIps(threat_indicators) = <<>>
           THEN [frame EXCEPT !.pc = "faker", !.resume = "append"]
           ELSE Appended(frame)
    /\ UNCHANGED <<config, rng, user_cache, asset_cache, ip_cache,
                   threat_indicators, last, workers, driver>>

\* An engine on the shipped configuration, with the indicator list the
\* constructor loads or the same list without its IP indicators.
InitTermination ==
    /\ config = ShippedConfig
    /\ rng \in Tapes({DefaultDraw})
    /\ user_cache = EmptyDict
    /\ asset_cache = EmptyDict
    /\ ip_cache = EmptyDict
    /\ threat_indicators \in IndicatorLists
    /\ last = NoCall
    /\ workers = NoWorkers
    /\ driver = NotRun
    /\ frame = NoFrame

NextTermination ==
    \/ BulkEnter
    \/ ScenarioEnter
    \/ NormalEnter
    \/ ScenarioIterationStep
    \/ ScenarioReturn
    \/ NormalIterationStep
    \/ BulkSortAndReturn
    \/ RollForward
    \/ WeekendOver
    \/ EventDestination
    \/ FakerReject
    \/ FakerAccept
    \/ InjectStep

\* The interpreter keeps executing the call, and the draws are fair: an
\* address generator that can return a public address on every turn of the
\* rejection loop does return one on some turn.
SpecTermination ==
    /\ InitTermination
    /\ [][NextTermination]_vars
    /\ WF_vars(NextTermination)
    /\ WF_vars(FakerAccept)

\* C27: every generate_bulk_events call terminates: its loops generate at
\* most total_events events, the weekend loop of generate_timestamp ends
\* within 2 turns, and under fair draws the rejection loop of
\* generate_external_ip ends, so a call that has started returns.
C27_BulkTerminates ==
    /\ [](frame.pc \notin {"idle", "done"} =>
              /\ frame.rolls <= 2
              /\ frame.scenario_events + frame.events <= Max({frame.total_events, 0}))
    /\ (frame.pc = "scenarios") ~> (frame.pc = "done")

\* C27 witness: a call returned after all its 20 events, scenario events
\* among them.
C27_Witness ==
    /\ frame.pc = "done"
    /\ frame.total_events = 20
    /\ frame.scenario_events > 0
    /\ frame.scenario_events + frame.events = 20

\* C27 witness: the weekend loop on its second turn, reached while the
\* rejection loop had been entered before.
C27_WitnessLoops ==
    /\ frame.pc = "faker"
    /\ frame.rolls = 2
    /\ frame.ip # <<>>

====
